---- MODULE Spec2Model ----
(***************************************************************************)
(* BGP-Playground: the path-vector simulator core.                         *)
(*   Route      src/app/models/route.py                                    *)
(*   Policy     src/app/models/policy.py                                   *)
(*   ASNode     src/app/models/as_node.py                                  *)
(*   Simulator  src/app/utils/simulator.py                                 *)
(* AS identifiers are Python strings; they are modelled as tuples of       *)
(* decimal digits ("100" is <<1,0,0>>) so that the string comparison the   *)
(* sort keys use can be computed.  None / "" is the empty tuple.           *)
(***************************************************************************)
EXTENDS Integers, Sequences, FiniteSets, TLC

VARIABLES config, nodes, set_order, timeline, current_step,
          best_route_changes_total, pc, phase, flap_i, iteration, converged,
          updates_to_process, upd_i, last, results, calls, heap

vars == <<config, nodes, set_order, timeline, current_step,
          best_route_changes_total, pc, phase, flap_i, iteration, converged,
          updates_to_process, upd_i, last, results, calls, heap>>

(***************************************************************************)
(* Identifiers, prefixes and the bounds of the model                       *)
(***************************************************************************)
A100 == <<1, 0, 0>>
A200 == <<2, 0, 0>>
A300 == <<3, 0, 0>>
A30  == <<3, 0>>
None == << >>

P1 == "10.0.1.0/24"
P2 == "10.0.2.0/24"

\* the longest AS path handed to receive_route by the node-level driver
MaxPathLen == 2
\* the number of method calls the node-level driver makes on its ASNode
MaxCalls == 2
\* the largest flap_count a configuration carries (the program: 1..10)
MaxFlap == 2
\* the largest as_path_prepend a configuration carries (the program: 0..10)
MaxPrepend == 1
\* the largest number of configured prefixes (the program: up to 50)
MaxPrefixes == 2

DefaultMaxSteps == 100
DefaultLocalPref == 100
DefaultMed == 0

(***************************************************************************)
(* Python values: str comparison, tuples, insertion-ordered dict           *)
(***************************************************************************)
Min2(a, b) == IF a < b THEN a ELSE b

\* str.__lt__ : lexicographic on characters, a proper prefix is smaller
StrLess(a, b) ==
    \E i \in 1..(Min2(Len(a), Len(b)) + 1) :
        /\ \A j \in 1..(i - 1) : a[j] = b[j]
        /\ \/ i > Len(a) /\ i <= Len(b)
           \/ i <= Len(a) /\ i <= Len(b) /\ a[i] < b[i]

\* an insertion-ordered dict is a sequence of [k, v] entries, keys distinct
DictKeys(d) == {d[i].k : i \in 1..Len(d)}
DictHas(d, k) == \E i \in 1..Len(d) : d[i].k = k
DictGet(d, k) == d[CHOOSE i \in 1..Len(d) : d[i].k = k].v
DictSet(d, k, v) ==
    IF DictHas(d, k)
    THEN [i \in 1..Len(d) |-> IF d[i].k = k THEN [k |-> k, v |-> v] ELSE d[i]]
    ELSE Append(d, [k |-> k, v |-> v])
DictDel(d, k) == SelectSeq(d, LAMBDA e : e.k # k)

\* a dict whose enumeration order is never observed is a function
MapSet(m, k, v) == [x \in DOMAIN m \cup {k} |-> IF x = k THEN v ELSE m[x]]
MapDel(m, k) == [x \in DOMAIN m \ {k} |-> m[x]]
EmptyMap == [x \in {} |-> 0]

InSeq(x, s) == \E i \in 1..Len(s) : s[i] = x

(***************************************************************************)
(* Route                                                                   *)
(***************************************************************************)
OriginType == {"IGP", "EGP", "INCOMPLETE"}
OriginValue(o) == CASE o = "IGP" -> 0 [] o = "EGP" -> 1 [] o = "INCOMPLETE" -> 2

Route(prefix, as_path, origin, local_pref, med, next_hop) ==
    [prefix |-> prefix, as_path |-> as_path, origin |-> origin,
     local_pref |-> local_pref, med |-> med, next_hop |-> next_hop]

has_loop(route, asn) == InSeq(asn, route.as_path)

\* a fresh Route carrying the same six attribute values
clone(route) ==
    Route(route.prefix, route.as_path, route.origin, route.local_pref,
          route.med, route.next_hop)

to_dict(route) ==
    [prefix |-> route.prefix, as_path |-> route.as_path,
     origin |-> route.origin, local_pref |-> route.local_pref,
     med |-> route.med, next_hop |-> route.next_hop]

(***************************************************************************)
(* Route objects: the interpreter's objects behind the Route values. A     *)
(* Route object holds a reference to a list object as its as_path; two     *)
(* Route objects that hold the same reference see each other's appends.    *)
(***************************************************************************)
\* no object allocated; self and ret name the Route object the last method
\* was called on or handed and the one it returned (0: none); rib and rib_in
\* are the two dicts of the ASNode object, holding references to Route
\* objects
EmptyHeap ==
    [lists |-> << >>, routes |-> << >>, self |-> 0, ret |-> 0,
     rib |-> << >>, rib_in |-> EmptyMap]

\* list.copy(): a new list object with the same items
list_copy(h, l) == [h EXCEPT !.lists = Append(@, h.lists[l])]

\* Route.__init__: the new object keeps a copy of the list it is handed
new_Route(h, prefix, as_path, origin, local_pref, med, next_hop) ==
    LET h1 == list_copy(h, as_path)
    IN  [h1 EXCEPT !.routes =
            Append(@, Route(prefix, Len(h1.lists), origin, local_pref, med,
                            next_hop)),
                   !.ret = Len(h.routes) + 1]

\* mutant: a shallow copy of the object, which shares the as_path list
clone_object_shallow(h, self) ==
    [h EXCEPT !.routes = Append(@, h.routes[self]),
              !.self = self, !.ret = Len(h.routes) + 1]

\* Route.clone on the object self: Route(..., as_path=self.as_path.copy(), ...)
clone_object(h, self) ==
    LET r == h.routes[self]
        h1 == list_copy(h, r.as_path)
    IN  [new_Route(h1, r.prefix, Len(h1.lists), r.origin, r.local_pref,
                   r.med, r.next_hop) EXCEPT !.self = self]

\* the Route value the object r stands for
RouteOf(h, r) == [h.routes[r] EXCEPT !.as_path = h.lists[@]]

(***************************************************************************)
(* Policy                                                                  *)
(***************************************************************************)
Policy(local_pref_map, export_filters, as_path_prepend) ==
    [local_pref_map |-> local_pref_map, export_filters |-> export_filters,
     as_path_prepend |-> as_path_prepend]

DefaultPolicy == Policy(EmptyMap, << >>, 0)

apply_import(policy, route, from_asn) ==
    LET modified == clone(route)
    IN  IF from_asn \in DOMAIN policy.local_pref_map
        THEN [modified EXCEPT !.local_pref = policy.local_pref_map[from_asn]]
        ELSE modified

RECURSIVE PrependLoop(_, _, _)
PrependLoop(as_path, n, to_asn) ==
    IF n = 0 THEN as_path
    ELSE PrependLoop(<<IF Len(as_path) > 0 THEN as_path[1] ELSE to_asn>> \o as_path,
                     n - 1, to_asn)

\* Optional[Route]: << >> is Python's None, <<r>> is the Route r
Some(r) == <<r>>
IsNone(o) == Len(o) = 0
Val(o) == o[1]

\* mutant: the export filters are not consulted
apply_export_no_filter(policy, route, to_asn) ==
    LET modified == clone(route)
    IN  IF policy.as_path_prepend > 0
        THEN Some([modified EXCEPT
                 !.as_path = PrependLoop(@, policy.as_path_prepend, to_asn)])
        ELSE Some(modified)

\* the result is None when a deny entry matches, else the modified clone
apply_export(policy, route, to_asn) ==
    IF \E i \in 1..Len(policy.export_filters) :
           /\ policy.export_filters[i][1] = "deny"
           /\ route.prefix = policy.export_filters[i][2]
    THEN None
    ELSE LET modified == clone(route)
         IN  IF policy.as_path_prepend > 0
             THEN Some([modified EXCEPT
                      !.as_path = PrependLoop(@, policy.as_path_prepend, to_asn)])
             ELSE Some(modified)

(***************************************************************************)
(* ASNode                                                                  *)
(***************************************************************************)
ASNode(asn, policy) ==
    [asn |-> asn, neighbors |-> {}, rib |-> << >>, rib_in |-> EmptyMap,
     policy |-> policy]

add_neighbor(node, neighbor_asn) ==
    [node EXCEPT !.neighbors = @ \cup {neighbor_asn},
                 !.rib_in = MapSet(@, neighbor_asn, EmptyMap)]

routes_equal(r1, r2) ==
    /\ r1.as_path = r2.as_path
    /\ r1.local_pref = r2.local_pref
    /\ r1.origin = r2.origin

\* the (route, neighbor) tuples the decision process collects from rib_in
Candidates(node, prefix) ==
    {[route |-> node.rib_in[nb][prefix], neighbor |-> nb] :
        nb \in {x \in DOMAIN node.rib_in : prefix \in DOMAIN node.rib_in[x]}}

first_as(c) == IF Len(c.route.as_path) > 0 THEN c.route.as_path[1] ELSE c.neighbor

\* key=lambda x: (x[0].med, x[1])
MedKeyLess(a, b) ==
    \/ a.route.med < b.route.med
    \/ a.route.med = b.route.med /\ StrLess(a.neighbor, b.neighbor)

\* mutant: the path length is compared before the local preference
CompareKeyLess_len_first(a, b) ==
    \/ Len(a.route.as_path) < Len(b.route.as_path)
    \/ /\ Len(a.route.as_path) = Len(b.route.as_path)
       /\ \/ a.route.local_pref > b.route.local_pref
          \/ /\ a.route.local_pref = b.route.local_pref
             /\ \/ OriginValue(a.route.origin) < OriginValue(b.route.origin)
                \/ /\ a.route.origin = b.route.origin
                   /\ StrLess(a.neighbor, b.neighbor)

\* mutant: the last tie goes to the highest peer identifier
CompareKeyLess_peer_desc(a, b) ==
    \/ a.route.local_pref > b.route.local_pref
    \/ /\ a.route.local_pref = b.route.local_pref
       /\ \/ Len(a.route.as_path) < Len(b.route.as_path)
          \/ /\ Len(a.route.as_path) = Len(b.route.as_path)
             /\ \/ OriginValue(a.route.origin) < OriginValue(b.route.origin)
                \/ /\ a.route.origin = b.route.origin
                   /\ StrLess(b.neighbor, a.neighbor)

\* compare_key: (-local_pref, len(as_path), origin.value, neighbor)
CompareKeyLess(a, b) ==
    \/ a.route.local_pref > b.route.local_pref
    \/ /\ a.route.local_pref = b.route.local_pref
       /\ \/ Len(a.route.as_path) < Len(b.route.as_path)
          \/ /\ Len(a.route.as_path) = Len(b.route.as_path)
             /\ \/ OriginValue(a.route.origin) < OriginValue(b.route.origin)
                \/ /\ a.route.origin = b.route.origin
                   /\ StrLess(a.neighbor, b.neighbor)

\* mutant: the candidates are grouped by announcing peer, not by first AS
best_per_as_by_peer(candidates) == candidates

\* routes.sort(key=...); routes[0] : the neighbors of the candidates are
\* pairwise different, so both keys order them strictly and the head of the
\* sorted list is the one candidate no other precedes
best_per_as(candidates) ==
    {c \in candidates :
        \A d \in candidates :
            (first_as(d) = first_as(c) /\ d # c) => MedKeyLess(c, d)}

\* the (route, neighbor) tuple whose route _select_best_route returns
select_best(candidates) ==
    IF Cardinality(candidates) = 1
    THEN CHOOSE c \in candidates : TRUE
    ELSE LET reduced == best_per_as(candidates)
         IN  CHOOSE c \in reduced :
                 \A d \in reduced : d # c => CompareKeyLess(c, d)

select_best_route(candidates) == select_best(candidates).route

\* mutant: the winner is installed and reported as a change without the
\* comparison with the route held
run_decision_process_no_compare(node, prefix) ==
    LET candidates == Candidates(node, prefix)
    IN  IF candidates = {}
        THEN IF DictHas(node.rib, prefix)
             THEN [node |-> [node EXCEPT !.rib = DictDel(@, prefix)],
                   ret |-> TRUE, best |-> None]
             ELSE [node |-> node, ret |-> FALSE, best |-> None]
        ELSE LET best == select_best(candidates)
             IN  [node |-> [node EXCEPT
                               !.rib = DictSet(@, prefix, clone(best.route))],
                  ret |-> TRUE, best |-> Some(best)]

\* mutant: installing a winner replaces the whole rib by the one entry
run_decision_process_replaces_rib(node, prefix) ==
    LET candidates == Candidates(node, prefix)
    IN  IF candidates = {}
        THEN IF DictHas(node.rib, prefix)
             THEN [node |-> [node EXCEPT !.rib = DictDel(@, prefix)],
                   ret |-> TRUE, best |-> None]
             ELSE [node |-> node, ret |-> FALSE, best |-> None]
        ELSE LET best == select_best(candidates)
             IN  IF /\ DictHas(node.rib, prefix)
                    /\ routes_equal(DictGet(node.rib, prefix), best.route)
                 THEN [node |-> node, ret |-> FALSE, best |-> Some(best)]
                 ELSE [node |-> [node EXCEPT
                                    !.rib = DictSet(<< >>, prefix,
                                                    clone(best.route))],
                       ret |-> TRUE, best |-> Some(best)]

\* result: the node afterwards, the returned flag and, when candidates
\* exist, the (route, neighbor) tuple _select_best_route picked
run_decision_process(node, prefix) ==
    LET candidates == Candidates(node, prefix)
    IN  IF candidates = {}
        THEN IF DictHas(node.rib, prefix)
             THEN [node |-> [node EXCEPT !.rib = DictDel(@, prefix)],
                   ret |-> TRUE, best |-> None]
             ELSE [node |-> node, ret |-> FALSE, best |-> None]
        ELSE LET best == select_best(candidates)
             IN  IF /\ DictHas(node.rib, prefix)
                    /\ routes_equal(DictGet(node.rib, prefix), best.route)
                 THEN [node |-> node, ret |-> FALSE, best |-> Some(best)]
                 ELSE [node |-> [node EXCEPT
                                    !.rib = DictSet(@, prefix, clone(best.route))],
                       ret |-> TRUE, best |-> Some(best)]

\* mutant: the route goes straight into rib, rib_in[self] is not written
originate_route_rib_only(node, prefix) ==
    LET route == Route(prefix, <<node.asn>>, "IGP", DefaultLocalPref,
                       DefaultMed, node.asn)
    IN  [node |-> [node EXCEPT !.rib = DictSet(@, prefix, route)],
         ret |-> route, best |-> None]

originate_route(node, prefix) ==
    LET route == Route(prefix, <<node.asn>>, "IGP", DefaultLocalPref,
                       DefaultMed, node.asn)
        own   == IF node.asn \in DOMAIN node.rib_in
                 THEN node.rib_in[node.asn] ELSE EmptyMap
        n1    == [node EXCEPT
                     !.rib_in = MapSet(@, node.asn, MapSet(own, prefix, route)),
                     !.rib = DictSet(@, prefix, route)]
        dp    == run_decision_process(n1, prefix)
    IN  [node |-> dp.node, ret |-> route, best |-> dp.best]

\* mutant: no loop prevention
receive_route_no_loop_check(node, route, from_asn) ==
    IF route.next_hop = None
    THEN [node |-> node, ret |-> FALSE, best |-> None]
    ELSE LET imported == clone(apply_import(node.policy, route, from_asn))
             stored   == [imported EXCEPT !.next_hop = from_asn]
             from_in  == IF from_asn \in DOMAIN node.rib_in
                         THEN node.rib_in[from_asn] ELSE EmptyMap
             n1 == [node EXCEPT
                       !.rib_in = MapSet(@, from_asn,
                                         MapSet(from_in, route.prefix, stored))]
         IN  run_decision_process(n1, route.prefix)

\* mutant: a route that ties with the best one up to the peer identifier
\* replaces it, so the latest of the tied routes is installed
receive_route_latest_wins(node, route, from_asn) ==
    IF has_loop(route, node.asn)
    THEN [node |-> node, ret |-> FALSE, best |-> None]
    ELSE IF route.next_hop = None
    THEN [node |-> node, ret |-> FALSE, best |-> None]
    ELSE LET imported == clone(apply_import(node.policy, route, from_asn))
             stored   == [imported EXCEPT !.next_hop = from_asn]
             from_in  == IF from_asn \in DOMAIN node.rib_in
                         THEN node.rib_in[from_asn] ELSE EmptyMap
             n1 == [node EXCEPT
                       !.rib_in = MapSet(@, from_asn,
                                         MapSet(from_in, route.prefix, stored))]
             dp == run_decision_process(n1, route.prefix)
             tied == /\ ~IsNone(dp.best)
                     /\ Val(dp.best).neighbor # from_asn
                     /\ Val(dp.best).route.local_pref = stored.local_pref
                     /\ Len(Val(dp.best).route.as_path) = Len(stored.as_path)
                     /\ Val(dp.best).route.origin = stored.origin
         IN  IF tied
             THEN [node |-> [n1 EXCEPT
                                !.rib = DictSet(@, route.prefix, clone(stored))],
                   ret |-> ~(/\ DictHas(n1.rib, route.prefix)
                             /\ routes_equal(DictGet(n1.rib, route.prefix),
                                             stored)),
                   best |-> Some([route |-> stored, neighbor |-> from_asn])]
             ELSE dp

\* mutant: the stored route names the receiving node as its next_hop
receive_route_next_hop_self(node, route, from_asn) ==
    IF has_loop(route, node.asn)
    THEN [node |-> node, ret |-> FALSE, best |-> None]
    ELSE IF route.next_hop = None
    THEN [node |-> node, ret |-> FALSE, best |-> None]
    ELSE LET imported == clone(apply_import(node.policy, route, from_asn))
             stored   == [imported EXCEPT !.next_hop = node.asn]
             from_in  == IF from_asn \in DOMAIN node.rib_in
                         THEN node.rib_in[from_asn] ELSE EmptyMap
             n1 == [node EXCEPT
                       !.rib_in = MapSet(@, from_asn,
                                         MapSet(from_in, route.prefix, stored))]
         IN  run_decision_process(n1, route.prefix)

\* mutant: a route without next_hop is taken like any other
receive_route_no_next_hop_check(node, route, from_asn) ==
    IF has_loop(route, node.asn)
    THEN [node |-> node, ret |-> FALSE, best |-> None]
    ELSE LET imported == clone(apply_import(node.policy, route, from_asn))
             stored   == [imported EXCEPT !.next_hop = from_asn]
             from_in  == IF from_asn \in DOMAIN node.rib_in
                         THEN node.rib_in[from_asn] ELSE EmptyMap
             n1 == [node EXCEPT
                       !.rib_in = MapSet(@, from_asn,
                                         MapSet(from_in, route.prefix, stored))]
         IN  run_decision_process(n1, route.prefix)

receive_route(node, route, from_asn) ==
    IF has_loop(route, node.asn)
    THEN [node |-> node, ret |-> FALSE, best |-> None]
    ELSE IF route.next_hop = None
    THEN [node |-> node, ret |-> FALSE, best |-> None]
    ELSE LET imported == clone(apply_import(node.policy, route, from_asn))
             stored   == [imported EXCEPT !.next_hop = from_asn]
             from_in  == IF from_asn \in DOMAIN node.rib_in
                         THEN node.rib_in[from_asn] ELSE EmptyMap
             n1 == [node EXCEPT
                       !.rib_in = MapSet(@, from_asn,
                                         MapSet(from_in, route.prefix, stored))]
         IN  run_decision_process(n1, route.prefix)

\* mutant: the entry is removed but the decision process is not run again
withdraw_route_no_decision(node, prefix, from_asn) ==
    IF from_asn \in DOMAIN node.rib_in /\ prefix \in DOMAIN node.rib_in[from_asn]
    THEN [node |-> [node EXCEPT !.rib_in[from_asn] = MapDel(@, prefix)],
          ret |-> FALSE, best |-> None]
    ELSE [node |-> node, ret |-> FALSE, best |-> None]

withdraw_route(node, prefix, from_asn) ==
    IF from_asn \in DOMAIN node.rib_in /\ prefix \in DOMAIN node.rib_in[from_asn]
    THEN run_decision_process(
             [node EXCEPT !.rib_in[from_asn] = MapDel(@, prefix)], prefix)
    ELSE [node |-> node, ret |-> FALSE, best |-> None]

get_routes_to_advertise(node) == node.rib

\* mutant: no split horizon
prepare_advertisement_no_split_horizon(node, route, to_asn) ==
    LET exported == apply_export(node.policy, route, to_asn)
    IN  IF IsNone(exported) THEN None
        ELSE LET e1 == clone(Val(exported))
                 e2 == IF Len(e1.as_path) = 0 \/ e1.as_path[1] # node.asn
                       THEN [e1 EXCEPT !.as_path = <<node.asn>> \o @]
                       ELSE e1
             IN  Some([e2 EXCEPT !.next_hop = node.asn])

\* mutant: the split horizon test reads "not my own route"
prepare_advertisement_own_only(node, route, to_asn) ==
    IF route.next_hop # node.asn THEN None
    ELSE LET exported == apply_export(node.policy, route, to_asn)
         IN  IF IsNone(exported) THEN None
             ELSE LET e1 == clone(Val(exported))
                      e2 == IF Len(e1.as_path) = 0 \/ e1.as_path[1] # node.asn
                            THEN [e1 EXCEPT !.as_path = <<node.asn>> \o @]
                            ELSE e1
                  IN  Some([e2 EXCEPT !.next_hop = node.asn])

\* mutant: the own ASN is not prepended to the exported path
prepare_advertisement_no_prepend(node, route, to_asn) ==
    IF route.next_hop = to_asn THEN None
    ELSE LET exported == apply_export(node.policy, route, to_asn)
         IN  IF IsNone(exported) THEN None
             ELSE Some([clone(Val(exported)) EXCEPT !.next_hop = node.asn])

\* None when suppressed (split horizon or export filter)
prepare_advertisement(node, route, to_asn) ==
    IF route.next_hop = to_asn THEN None
    ELSE LET exported == apply_export(node.policy, route, to_asn)
         IN  IF IsNone(exported) THEN None
             ELSE LET e1 == clone(Val(exported))
                      e2 == IF Len(e1.as_path) = 0 \/ e1.as_path[1] # node.asn
                            THEN [e1 EXCEPT !.as_path = <<node.asn>> \o @]
                            ELSE e1
                  IN  Some([e2 EXCEPT !.next_hop = node.asn])

(***************************************************************************)
(* Staging on Route objects: apply_export and prepare_advertisement as    *)
(* they act on the objects of the heap                                     *)
(***************************************************************************)
\* route.as_path.insert(0, asn)
as_path_insert(h, route, asn) ==
    [h EXCEPT !.lists[h.routes[route].as_path] = <<asn>> \o @]

\* the prepending loop of apply_export on the object modified
RECURSIVE prepend_object(_, _, _, _)
prepend_object(h, modified, n, to_asn) ==
    IF n = 0 THEN h
    ELSE LET as_path == h.lists[h.routes[modified].as_path]
         IN  prepend_object(
                 as_path_insert(h, modified,
                                IF Len(as_path) > 0 THEN as_path[1] ELSE to_asn),
                 modified, n - 1, to_asn)

\* mutant: the prepending works on the route it was handed, not on a clone
apply_export_object_in_place(h, policy, route, to_asn) ==
    IF \E i \in 1..Len(policy.export_filters) :
           /\ policy.export_filters[i][1] = "deny"
           /\ h.routes[route].prefix = policy.export_filters[i][2]
    THEN [h EXCEPT !.ret = 0]
    ELSE [prepend_object(h, route, policy.as_path_prepend, to_asn)
             EXCEPT !.ret = route]

\* Policy.apply_export on the object route; ret is the object returned, 0
\* for None
apply_export_object(h, policy, route, to_asn) ==
    IF \E i \in 1..Len(policy.export_filters) :
           /\ policy.export_filters[i][1] = "deny"
           /\ h.routes[route].prefix = policy.export_filters[i][2]
    THEN [h EXCEPT !.ret = 0]
    ELSE LET h1 == clone_object(h, route)
             modified == h1.ret
         IN  [prepend_object(h1, modified, policy.as_path_prepend, to_asn)
                 EXCEPT !.ret = modified]

\* ASNode.prepare_advertisement on the object route; ret is the object
\* returned, 0 for None
prepare_advertisement_object(h, node, route, to_asn) ==
    IF h.routes[route].next_hop = to_asn
    THEN [h EXCEPT !.self = route, !.ret = 0]
    ELSE LET h1 == apply_export_object(h, node.policy, route, to_asn)
         IN  IF h1.ret = 0 THEN [h1 EXCEPT !.self = route]
             ELSE LET h2 == clone_object(h1, h1.ret)
                      exported == h2.ret
                      as_path == h2.lists[h2.routes[exported].as_path]
                      h3 == IF Len(as_path) = 0 \/ as_path[1] # node.asn
                            THEN as_path_insert(h2, exported, node.asn)
                            ELSE h2
                  IN  [h3 EXCEPT !.routes[exported].next_hop = node.asn,
                                 !.self = route, !.ret = exported]

(***************************************************************************)
(* The ASNode methods on Route objects: rib and rib_in of the heap hold    *)
(* references, the choices are made on the values the objects stand for   *)
(***************************************************************************)
\* the ASNode value the node object stands for
NodeOf(h, node) ==
    [node EXCEPT
        !.rib = [i \in 1..Len(h.rib) |->
                    [k |-> h.rib[i].k, v |-> RouteOf(h, h.rib[i].v)]],
        !.rib_in = [nb \in DOMAIN h.rib_in |->
                       [prefix \in DOMAIN h.rib_in[nb] |->
                           RouteOf(h, h.rib_in[nb][prefix])]]]

\* ASNode._run_decision_process: the winner is the object held in rib_in,
\* rib gets a clone of it
run_decision_process_object(h, node, prefix) ==
    LET candidates == Candidates(NodeOf(h, node), prefix)
    IN  IF candidates = {}
        THEN IF DictHas(h.rib, prefix)
             THEN [heap |-> [h EXCEPT !.rib = DictDel(@, prefix)], ret |-> TRUE]
             ELSE [heap |-> h, ret |-> FALSE]
        ELSE LET best == select_best(candidates)
                 best_route == h.rib_in[best.neighbor][prefix]
             IN  IF /\ DictHas(h.rib, prefix)
                    /\ routes_equal(RouteOf(h, DictGet(h.rib, prefix)),
                                    RouteOf(h, best_route))
                 THEN [heap |-> h, ret |-> FALSE]
                 ELSE LET h1 == clone_object(h, best_route)
                      IN  [heap |-> [h1 EXCEPT !.rib = DictSet(@, prefix, h1.ret)],
                           ret |-> TRUE]

\* ASNode.originate_route: the new Route object is stored in rib_in[self]
\* and in rib, then the decision process runs; heap.ret is the object
\* returned
originate_route_object(h, node, prefix) ==
    LET h0 == [h EXCEPT !.lists = Append(@, <<node.asn>>)]
        h1 == new_Route(h0, prefix, Len(h0.lists), "IGP", DefaultLocalPref,
                        DefaultMed, node.asn)
        route == h1.ret
        own == IF node.asn \in DOMAIN h1.rib_in
               THEN h1.rib_in[node.asn] ELSE EmptyMap
        h2 == [h1 EXCEPT
                  !.rib_in = MapSet(@, node.asn, MapSet(own, prefix, route)),
                  !.rib = DictSet(@, prefix, route)]
        dp == run_decision_process_object(h2, node, prefix)
    IN  [heap |-> [dp.heap EXCEPT !.self = 0, !.ret = route], ret |-> dp.ret]

\* Policy.apply_import on the object route; ret is the object returned
apply_import_object(h, policy, route, from_asn) ==
    LET h1 == clone_object(h, route)
        modified == h1.ret
    IN  IF from_asn \in DOMAIN policy.local_pref_map
        THEN [h1 EXCEPT !.routes[modified].local_pref =
                            policy.local_pref_map[from_asn]]
        ELSE h1

\* mutant: the route handed over is itself given the local_pref and the
\* next_hop and stored
receive_route_object_in_place(h, node, route, from_asn) ==
    IF has_loop(RouteOf(h, route), node.asn)
    THEN [heap |-> [h EXCEPT !.self = route, !.ret = 0], ret |-> FALSE]
    ELSE IF RouteOf(h, route).next_hop = None
    THEN [heap |-> [h EXCEPT !.self = route, !.ret = 0], ret |-> FALSE]
    ELSE LET prefix == h.routes[route].prefix
             from_in == IF from_asn \in DOMAIN h.rib_in
                        THEN h.rib_in[from_asn] ELSE EmptyMap
             lp == IF from_asn \in DOMAIN node.policy.local_pref_map
                   THEN node.policy.local_pref_map[from_asn]
                   ELSE h.routes[route].local_pref
             h3 == [h EXCEPT
                       !.routes[route].local_pref = lp,
                       !.routes[route].next_hop = from_asn,
                       !.rib_in = MapSet(@, from_asn,
                                         MapSet(from_in, prefix, route))]
             dp == run_decision_process_object(h3, node, prefix)
         IN  [heap |-> [dp.heap EXCEPT !.self = route, !.ret = 0],
              ret |-> dp.ret]

\* ASNode.receive_route on the object route; heap.self is the object handed
\* over
receive_route_object(h, node, route, from_asn) ==
    IF has_loop(RouteOf(h, route), node.asn)
    THEN [heap |-> [h EXCEPT !.self = route, !.ret = 0], ret |-> FALSE]
    ELSE IF RouteOf(h, route).next_hop = None
    THEN [heap |-> [h EXCEPT !.self = route, !.ret = 0], ret |-> FALSE]
    ELSE LET prefix == h.routes[route].prefix
             h1 == apply_import_object(h, node.policy, route, from_asn)
             h2 == clone_object(h1, h1.ret)
             imported_route == h2.ret
             from_in == IF from_asn \in DOMAIN h2.rib_in
                        THEN h2.rib_in[from_asn] ELSE EmptyMap
             h3 == [h2 EXCEPT
                       !.routes[imported_route].next_hop = from_asn,
                       !.rib_in = MapSet(@, from_asn,
                                         MapSet(from_in, prefix,
                                                imported_route))]
             dp == run_decision_process_object(h3, node, prefix)
         IN  [heap |-> [dp.heap EXCEPT !.self = route, !.ret = 0],
              ret |-> dp.ret]

(***************************************************************************)
(* BGPSimulator                                                            *)
(***************************************************************************)
Event(ts, event_type, from_as, to_as, prefix, details) ==
    [timestamp |-> ts, event_type |-> event_type, from_as |-> from_as,
     to_as |-> to_as, prefix |-> prefix, details |-> details]

NoPrefix == ""

PolicyFor(cfg, asn) ==
    IF asn \in DOMAIN cfg.policies THEN cfg.policies[asn] ELSE DefaultPolicy

RECURSIVE AddLinks(_, _, _)
AddLinks(ns, links, i) ==
    IF i > Len(links) THEN ns
    ELSE LET asn1 == links[i][1]
             asn2 == links[i][2]
             n1 == [ns EXCEPT ![asn1] = add_neighbor(@, asn2)]
             n2 == [n1 EXCEPT ![asn2] = add_neighbor(@, asn1)]
         IN  AddLinks(n2, links, i + 1)

build_topology(cfg) ==
    AddLinks([asn \in {cfg.nodes[i] : i \in 1..Len(cfg.nodes)} |->
                  ASNode(asn, PolicyFor(cfg, asn))],
             cfg.links, 1)

RECURSIVE Flatten(_)
Flatten(ss) == IF Len(ss) = 0 THEN << >> ELSE Head(ss) \o Flatten(Tail(ss))

\* for asn in nodes: for neighbor in node.neighbors: (asn, neighbor)
PeerPairs(ns, node_seq, order) ==
    Flatten([i \in 1..Len(node_seq) |->
                [j \in 1..Len(order[node_seq[i]]) |->
                    <<node_seq[i], order[node_seq[i]][j]>>]])

\* the staging loops of one round: the updates queued, in queue order
StageUpdates(ns, node_seq, order) ==
    LET pairs == PeerPairs(ns, node_seq, order)
        ForPair(pr) ==
            LET node == ns[pr[1]]
                routes_to_advertise == get_routes_to_advertise(node)
                one(e) ==
                    LET adv_route == prepare_advertisement(node, e.v, pr[2])
                    IN  IF IsNone(adv_route) THEN << >>
                        ELSE <<[from_asn |-> pr[1], to_asn |-> pr[2],
                                prefix |-> e.k, adv_route |-> Val(adv_route)]>>
            IN  Flatten([x \in 1..Len(routes_to_advertise) |->
                            one(routes_to_advertise[x])])
    IN  Flatten([p \in 1..Len(pairs) |-> ForPair(pairs[p])])

Keepalives(ns, node_seq, order, ts) ==
    LET pairs == PeerPairs(ns, node_seq, order)
    IN  [p \in 1..Len(pairs) |->
            Event(ts, "keepalive", pairs[p][1], pairs[p][2], NoPrefix, << >>)]

(***************************************************************************)
(* The configurations a run is started with                                *)
(***************************************************************************)
NodeSeq == <<A100, A200, A300>>
NodeSet == {NodeSeq[i] : i \in 1..Len(NodeSeq)}
AllLinks == <<<<A100, A200>>, <<A200, A300>>, <<A100, A300>>>>
PrefixPool == <<P1, P2, "10.0.3.0/24", "10.0.4.0/24">>
Prefixes == {PrefixPool[i] : i \in 1..Len(PrefixPool)}

\* link lists that name one link twice, the second time as it is or turned
DuplicateLinkSeqs ==
    {<<<<A100, A200>>, <<A100, A200>>>>, <<<<A100, A200>>, <<A200, A100>>>>}
LinkSeqs ==
    {SelectSeq(AllLinks, LAMBDA l : l \in S) :
        S \in SUBSET {AllLinks[i] : i \in 1..Len(AllLinks)}}
    \cup DuplicateLinkSeqs
PrefixSeqs == {SubSeq(PrefixPool, 1, n) : n \in {1, MaxPrefixes}}
\* the nodes a configuration names as origin_as
Origins == {A100, A200}
MaxStepsOpts == {1, DefaultMaxSteps}
LocalPrefs == {150}

ScenarioOpts(origin) ==
    {[scenario |-> "baseline", hijacker |-> None, flap_count |-> 3]}
    \cup {[scenario |-> "hijack", hijacker |-> h, flap_count |-> 3] :
             h \in NodeSet \ {origin}}
    \cup {[scenario |-> "route_flap", hijacker |-> None, flap_count |-> f] :
             f \in {1, MaxFlap}}
    \cup {[scenario |-> "unknown", hijacker |-> None, flap_count |-> 3]}

\* a policy record that differs from the default one in one field
PolicyOpts(asn) ==
    {Policy([x \in {p} |-> v], << >>, 0) :
        p \in NodeSet \ {asn}, v \in LocalPrefs}
    \cup {Policy(EmptyMap, << >>, k) : k \in 1..MaxPrepend}
    \cup {Policy(EmptyMap, <<<<"deny", P1>>>>, 0),
          Policy(EmptyMap, <<<<"permit", P1>>, <<"deny", P1>>>>, 0)}

PolicyMaps ==
    {EmptyMap} \cup
    UNION {{[x \in {asn} |-> p] : p \in PolicyOpts(asn)} : asn \in NodeSet}

\* the max_steps values a configuration with these policies is run with:
\* the cap of one round goes with the configurations without policies
MaxStepsFor(pol) ==
    IF pol = EmptyMap THEN MaxStepsOpts ELSE {DefaultMaxSteps}

NeighborsOf(links, asn) ==
    {b \in NodeSet : \E i \in 1..Len(links) :
        links[i] = <<asn, b>> \/ links[i] = <<b, asn>>}

\* the orders in which a Python set with these members may be enumerated
Orders(S) ==
    {s \in [1..Cardinality(S) -> S] : \A i, j \in DOMAIN s : s[i] = s[j] => i = j}

ApiConfig ==
    [nodes |-> <<A100>>, links |-> << >>, prefixes |-> <<P1>>,
     origin_as |-> A100, scenario |-> "baseline", hijacker |-> None,
     flap_count |-> 3, policies |-> EmptyMap, max_steps |-> DefaultMaxSteps]

NoLast == [op |-> "none", asn |-> None, prefix |-> NoPrefix, route |-> None,
           from_asn |-> None, ret |-> FALSE, best |-> None]
NoResults == [ready |-> FALSE]

(***************************************************************************)
(* A simulation run: BGPSimulator(config).run()                            *)
(***************************************************************************)
Init ==
    /\ \E links \in LinkSeqs, prefixes \in PrefixSeqs, origin \in Origins,
          pol \in PolicyMaps :
          \E sc \in ScenarioOpts(origin), ms \in MaxStepsFor(pol) :
          config = [nodes |-> NodeSeq, links |-> links, prefixes |-> prefixes,
                    origin_as |-> origin, scenario |-> sc.scenario,
                    hijacker |-> sc.hijacker, flap_count |-> sc.flap_count,
                    policies |-> pol, max_steps |-> ms]
    /\ \E o1 \in Orders(NeighborsOf(config.links, A100)),
          o2 \in Orders(NeighborsOf(config.links, A200)),
          o3 \in Orders(NeighborsOf(config.links, A300)) :
          set_order = [n \in NodeSet |->
                          CASE n = A100 -> o1 [] n = A200 -> o2 [] n = A300 -> o3]
    /\ nodes = EmptyMap
    /\ timeline = << >>
    /\ current_step = 0
    /\ best_route_changes_total = 0
    /\ pc = "build"
    /\ phase = "none"
    /\ flap_i = 0
    /\ iteration = 0
    /\ converged = FALSE
    /\ updates_to_process = << >>
    /\ upd_i = 1
    /\ last = NoLast
    /\ results = NoResults
    /\ calls = 0
    /\ heap = EmptyHeap

log_event(tl, ts, event_type, from_as, to_as, prefix, details) ==
    Append(tl, Event(ts, event_type, from_as, to_as, prefix, details))

\* run(): build_topology
BuildTopology ==
    /\ pc = "build"
    /\ nodes' = build_topology(config)
    /\ pc' = "sessions"
    /\ last' = [NoLast EXCEPT !.op = "build"]
    /\ UNCHANGED <<heap, config, set_order, timeline, current_step,
                   best_route_changes_total, phase, flap_i, iteration,
                   converged, updates_to_process, upd_i, results, calls>>

\* mutant: one session per listed link instead of one per neighbor
EstablishSessions_per_link ==
    /\ pc = "sessions"
    /\ timeline' = timeline \o
           Flatten([i \in 1..Len(config.links) |->
               <<Event(current_step, "open", config.links[i][1],
                       config.links[i][2], NoPrefix,
                       <<"BGP session established">>),
                 Event(current_step, "open", config.links[i][2],
                       config.links[i][1], NoPrefix,
                       <<"BGP session established">>)>>])
    /\ pc' = "announce"
    /\ upd_i' = 1
    /\ flap_i' = 0
    /\ phase' = CASE config.scenario = "baseline" -> "baseline"
                  [] config.scenario = "hijack" ->
                        IF config.hijacker = None THEN "baseline" ELSE "legit"
                  [] config.scenario = "route_flap" -> "flap_announce"
                  [] OTHER -> "none"
    /\ last' = [NoLast EXCEPT !.op = "sessions"]
    /\ UNCHANGED <<heap, config, nodes, set_order, current_step,
                   best_route_changes_total, iteration, converged,
                   updates_to_process, results, calls>>

\* the scenario names run() dispatches on
KnownScenarios == {"baseline", "hijack", "route_flap"}

\* where run() goes after _establish_sessions. With any other scenario name
\* run() of app/utils/simulator.py raises ValueError ("failed": nothing is
\* returned), while run() of simulator.py has no else branch and goes on to
\* _generate_results.
DispatchTargets(scenario) ==
    IF scenario \in KnownScenarios THEN {"announce"} ELSE {"failed", "results"}

\* run(): _establish_sessions, then the dispatch on the scenario name
EstablishSessions ==
    /\ pc = "sessions"
    /\ LET pairs == PeerPairs(nodes, config.nodes, set_order)
       IN  timeline' = timeline \o
               [p \in 1..Len(pairs) |->
                   Event(current_step, "open", pairs[p][1], pairs[p][2],
                         NoPrefix, <<"BGP session established">>)]
    /\ pc' \in DispatchTargets(config.scenario)
    /\ upd_i' = 1
    /\ flap_i' = 0
    /\ phase' = CASE config.scenario = "baseline" -> "baseline"
                  [] config.scenario = "hijack" ->
                        IF config.hijacker = None THEN "baseline" ELSE "legit"
                  [] config.scenario = "route_flap" -> "flap_announce"
                  [] OTHER -> "none"
    /\ last' = [NoLast EXCEPT !.op = "sessions"]
    /\ UNCHANGED <<heap, config, nodes, set_order, current_step,
                   best_route_changes_total, iteration, converged,
                   updates_to_process, results, calls>>

\* the details text; the f-strings carry the flap number i+1
AnnounceDetails ==
    CASE phase = "baseline" -> <<"Origin announcement">>
      [] phase = "legit" -> <<"Legitimate origin announcement">>
      [] phase = "hijack" -> <<"HIJACK: Malicious announcement">>
      [] phase = "flap_announce" -> <<"Route announcement (flap ", flap_i + 1, ")">>

\* one pass of a "for prefix in prefixes" loop that originates and logs
Announce ==
    /\ pc = "announce"
    /\ upd_i <= Len(config.prefixes)
    /\ LET asn == IF phase = "hijack" THEN config.hijacker ELSE config.origin_as
           prefix == config.prefixes[upd_i]
           r == originate_route(nodes[asn], prefix)
       IN  /\ nodes' = [nodes EXCEPT ![asn] = r.node]
           /\ timeline' = log_event(timeline, current_step, "update", asn, None,
                                    prefix, AnnounceDetails)
           /\ last' = [op |-> "originate", asn |-> asn, prefix |-> prefix,
                       route |-> Some(r.ret), from_asn |-> asn, ret |-> FALSE,
                       best |-> r.best]
    /\ upd_i' = upd_i + 1
    /\ UNCHANGED <<heap, config, set_order, current_step, best_route_changes_total,
                   pc, phase, flap_i, iteration, converged,
                   updates_to_process, results, calls>>

\* mutant: the withdraw step also drops the origin's own rib_in entry
Withdraw_rib_in_too ==
    /\ pc = "withdraw"
    /\ upd_i <= Len(config.prefixes)
    /\ LET asn == config.origin_as
           prefix == config.prefixes[upd_i]
       IN  /\ nodes' = [nodes EXCEPT
                           ![asn].rib =
                               IF DictHas(@, prefix) THEN DictDel(@, prefix) ELSE @,
                           ![asn].rib_in[asn] = MapDel(@, prefix)]
           /\ timeline' = log_event(timeline, current_step, "withdraw", asn,
                                    None, prefix,
                                    <<"Route withdrawal (flap ", flap_i + 1, ")">>)
           /\ last' = [NoLast EXCEPT !.op = "flap_withdraw", !.asn = asn,
                                     !.prefix = prefix]
    /\ upd_i' = upd_i + 1
    /\ UNCHANGED <<heap, config, set_order, current_step, best_route_changes_total,
                   pc, phase, flap_i, iteration, converged,
                   updates_to_process, results, calls>>

\* route_flap: one pass of the loop that deletes the origin's rib entry
Withdraw ==
    /\ pc = "withdraw"
    /\ upd_i <= Len(config.prefixes)
    /\ LET asn == config.origin_as
           prefix == config.prefixes[upd_i]
       IN  /\ nodes' = [nodes EXCEPT ![asn].rib =
                           IF DictHas(@, prefix) THEN DictDel(@, prefix) ELSE @]
           /\ timeline' = log_event(timeline, current_step, "withdraw", asn,
                                    None, prefix,
                                    <<"Route withdrawal (flap ", flap_i + 1, ")">>)
           /\ last' = [NoLast EXCEPT !.op = "flap_withdraw", !.asn = asn,
                                     !.prefix = prefix]
    /\ upd_i' = upd_i + 1
    /\ UNCHANGED <<heap, config, set_order, current_step, best_route_changes_total,
                   pc, phase, flap_i, iteration, converged,
                   updates_to_process, results, calls>>

\* mutant: every call of the driver starts its clock at 0
StartPropagation_reset ==
    /\ pc \in {"announce", "withdraw"}
    /\ upd_i > Len(config.prefixes)
    /\ current_step' = 0
    /\ converged' = FALSE
    /\ iteration' = 0
    /\ pc' = "loop"
    /\ last' = [NoLast EXCEPT !.op = "propagate"]
    /\ UNCHANGED <<heap, config, nodes, set_order, timeline,
                   best_route_changes_total, phase, flap_i,
                   updates_to_process, upd_i, results, calls>>

\* the loop is over: the scenario's "current_step += 1" where it has one,
\* and entry into _propagate_until_convergence
StartPropagation ==
    /\ pc \in {"announce", "withdraw"}
    /\ upd_i > Len(config.prefixes)
    /\ current_step' = IF phase = "baseline" THEN current_step
                       ELSE current_step + 1
    /\ converged' = FALSE
    /\ iteration' = 0
    /\ pc' = "loop"
    /\ last' = [NoLast EXCEPT !.op = "propagate"]
    /\ UNCHANGED <<heap, config, nodes, set_order, timeline,
                   best_route_changes_total, phase, flap_i,
                   updates_to_process, upd_i, results, calls>>

\* mutant: the loop test ignores max_steps
Stage_unbounded ==
    /\ pc = "loop"
    /\ ~converged
    /\ converged' = TRUE
    /\ current_step' = current_step + 1
    /\ iteration' = iteration + 1
    /\ updates_to_process' = StageUpdates(nodes, config.nodes, set_order)
    /\ upd_i' = 1
    /\ pc' = "apply"
    /\ last' = [NoLast EXCEPT !.op = "stage"]
    /\ UNCHANGED <<heap, config, nodes, set_order, timeline,
                   best_route_changes_total, phase, flap_i, results, calls>>

\* a round begins: the staging loops fill updates_to_process
Stage ==
    /\ pc = "loop"
    /\ ~converged /\ iteration < config.max_steps
    /\ converged' = TRUE
    /\ current_step' = current_step + 1
    /\ iteration' = iteration + 1
    /\ updates_to_process' = StageUpdates(nodes, config.nodes, set_order)
    /\ upd_i' = 1
    /\ pc' = "apply"
    /\ last' = [NoLast EXCEPT !.op = "stage"]
    /\ UNCHANGED <<heap, config, nodes, set_order, timeline,
                   best_route_changes_total, phase, flap_i, results, calls>>

\* mutant: a receive_route that returns true does not clear the flag
Apply_keeps_converged ==
    /\ pc = "apply"
    /\ upd_i <= Len(updates_to_process)
    /\ LET update == updates_to_process[upd_i]
           r == receive_route(nodes[update.to_asn], update.adv_route,
                              update.from_asn)
       IN  /\ nodes' = [nodes EXCEPT ![update.to_asn] = r.node]
           /\ best_route_changes_total' =
                  IF r.ret THEN best_route_changes_total + 1
                  ELSE best_route_changes_total
           /\ converged' = converged
           /\ timeline' =
                  IF r.ret
                  THEN log_event(timeline, current_step, "update",
                                 update.from_asn, update.to_asn, update.prefix,
                                 <<"Route update">>)
                  ELSE timeline
           /\ last' = [op |-> "receive", asn |-> update.to_asn,
                       prefix |-> update.prefix,
                       route |-> Some(update.adv_route),
                       from_asn |-> update.from_asn, ret |-> r.ret,
                       best |-> r.best]
    /\ upd_i' = upd_i + 1
    /\ UNCHANGED <<heap, config, set_order, current_step, pc, phase, flap_i,
                   iteration, updates_to_process, results, calls>>

\* mutant: a receiver whose best route changed advertises it in the same
\* round
Apply_same_round ==
    /\ pc = "apply"
    /\ upd_i <= Len(updates_to_process)
    /\ LET update == updates_to_process[upd_i]
           r == receive_route(nodes[update.to_asn], update.adv_route,
                              update.from_asn)
           ns == [nodes EXCEPT ![update.to_asn] = r.node]
       IN  /\ nodes' = ns
           /\ updates_to_process' =
                  IF r.ret
                  THEN updates_to_process \o
                       SelectSeq(StageUpdates(ns, config.nodes, set_order),
                                 LAMBDA u : u.from_asn = update.to_asn)
                  ELSE updates_to_process
           /\ best_route_changes_total' =
                  IF r.ret THEN best_route_changes_total + 1
                  ELSE best_route_changes_total
           /\ converged' = IF r.ret THEN FALSE ELSE converged
           /\ timeline' =
                  IF r.ret
                  THEN log_event(timeline, current_step, "update",
                                 update.from_asn, update.to_asn, update.prefix,
                                 <<"Route update">>)
                  ELSE timeline
           /\ last' = [op |-> "receive", asn |-> update.to_asn,
                       prefix |-> update.prefix,
                       route |-> Some(update.adv_route),
                       from_asn |-> update.from_asn, ret |-> r.ret,
                       best |-> r.best]
    /\ upd_i' = upd_i + 1
    /\ UNCHANGED <<heap, config, set_order, current_step, pc, phase, flap_i,
                   iteration, results, calls>>

\* one pass of "for update in updates_to_process"
Apply ==
    /\ pc = "apply"
    /\ upd_i <= Len(updates_to_process)
    /\ LET update == updates_to_process[upd_i]
           r == receive_route(nodes[update.to_asn], update.adv_route,
                              update.from_asn)
       IN  /\ nodes' = [nodes EXCEPT ![update.to_asn] = r.node]
           /\ best_route_changes_total' =
                  IF r.ret THEN best_route_changes_total + 1
                  ELSE best_route_changes_total
           /\ converged' = IF r.ret THEN FALSE ELSE converged
           /\ timeline' =
                  IF r.ret
                  THEN log_event(timeline, current_step, "update",
                                 update.from_asn, update.to_asn, update.prefix,
                                 <<"Route update">>)
                  ELSE timeline
           /\ last' = [op |-> "receive", asn |-> update.to_asn,
                       prefix |-> update.prefix,
                       route |-> Some(update.adv_route),
                       from_asn |-> update.from_asn, ret |-> r.ret,
                       best |-> r.best]
    /\ upd_i' = upd_i + 1
    /\ UNCHANGED <<heap, config, set_order, current_step, pc, phase, flap_i,
                   iteration, updates_to_process, results, calls>>

\* mutant: the keepalives are logged after every round
EndRound_always_keepalive ==
    /\ pc = "apply"
    /\ upd_i > Len(updates_to_process)
    /\ timeline' = timeline \o Keepalives(nodes, config.nodes, set_order,
                                          current_step)
    /\ pc' = "loop"
    /\ last' = [NoLast EXCEPT !.op = "end_round"]
    /\ UNCHANGED <<heap, config, nodes, set_order, current_step,
                   best_route_changes_total, phase, flap_i, iteration,
                   converged, updates_to_process, upd_i, results, calls>>

\* the round ends: keepalives when nothing was staged, back to the loop test
EndRound ==
    /\ pc = "apply"
    /\ upd_i > Len(updates_to_process)
    /\ timeline' = IF Len(updates_to_process) = 0
                   THEN timeline \o Keepalives(nodes, config.nodes, set_order,
                                               current_step)
                   ELSE timeline
    /\ pc' = "loop"
    /\ last' = [NoLast EXCEPT !.op = "end_round"]
    /\ UNCHANGED <<heap, config, nodes, set_order, current_step,
                   best_route_changes_total, phase, flap_i, iteration,
                   converged, updates_to_process, upd_i, results, calls>>

\* _propagate_until_convergence returns to the scenario that called it
PropagationDone ==
    /\ pc = "loop"
    /\ ~(~converged /\ iteration < config.max_steps)
    /\ \/ /\ phase \in {"baseline", "hijack"}
          /\ pc' = "results"
          /\ UNCHANGED <<phase, flap_i, upd_i>>
       \/ /\ phase = "legit"
          /\ phase' = "hijack"
          /\ pc' = "announce"
          /\ upd_i' = 1
          /\ UNCHANGED flap_i
       \/ /\ phase = "flap_announce"
          /\ phase' = "flap_withdraw"
          /\ pc' = "withdraw"
          /\ upd_i' = 1
          /\ UNCHANGED flap_i
       \/ /\ phase = "flap_withdraw"
          /\ flap_i' = flap_i + 1
          /\ IF flap_i + 1 < config.flap_count
             THEN phase' = "flap_announce" /\ pc' = "announce" /\ upd_i' = 1
             ELSE pc' = "results" /\ UNCHANGED <<phase, upd_i>>
    /\ last' = [NoLast EXCEPT !.op = "propagated"]
    /\ UNCHANGED <<heap, config, nodes, set_order, timeline, current_step,
                   best_route_changes_total, iteration, converged,
                   updates_to_process, results, calls>>

RECURSIVE SumSeq(_)
SumSeq(s) == IF Len(s) = 0 THEN 0 ELSE Head(s) + SumSeq(Tail(s))

\* a float quotient num / den, kept exact; the code yields 0.0 when den = 0
Ratio(num, den) == [num |-> num, den |-> den]

final_ribs_of(ns, node_seq) ==
    [asn \in DOMAIN ns |->
        [i \in 1..Len(ns[asn].rib) |->
            [k |-> ns[asn].rib[i].k, v |-> to_dict(ns[asn].rib[i].v)]]]

calculate_hijack_coverage(ribs, node_seq, hijacker) ==
    LET others == SelectSeq(node_seq, LAMBDA a : a # hijacker)
        total_count == SumSeq([i \in 1..Len(others) |-> Len(ribs[others[i]])])
        hijacked_count ==
            SumSeq([i \in 1..Len(others) |->
                Len(SelectSeq(ribs[others[i]],
                              LAMBDA e : InSeq(hijacker, e.v.as_path)))])
    IN  Ratio(hijacked_count * 100, total_count)

calculate_metrics(final_ribs) ==
    LET node_seq == config.nodes
        total_len ==
            SumSeq([i \in 1..Len(node_seq) |->
                SumSeq([j \in 1..Len(final_ribs[node_seq[i]]) |->
                    Len(final_ribs[node_seq[i]][j].v.as_path)])])
        route_count ==
            SumSeq([i \in 1..Len(node_seq) |-> Len(final_ribs[node_seq[i]])])
        total_pairs == Len(node_seq) * Len(config.prefixes)
        reachable ==
            SumSeq([i \in 1..Len(node_seq) |->
                Cardinality({p \in 1..Len(config.prefixes) :
                    DictHas(final_ribs[node_seq[i]], config.prefixes[p])})])
    IN  [convergence_steps |-> current_step,
         total_updates |->
             Len(SelectSeq(timeline, LAMBDA e : e.event_type = "update")),
         total_events |-> Len(timeline),
         best_route_changes_total |-> best_route_changes_total,
         avg_as_path_length |-> Ratio(total_len, route_count),
         routes_learned_total |-> route_count,
         reachable_prefix_pairs_pct |-> Ratio(reachable * 100, total_pairs),
         hijack_coverage_pct |->
             IF config.scenario = "hijack" /\ config.hijacker # None
             THEN calculate_hijack_coverage(final_ribs, node_seq, config.hijacker)
             ELSE Ratio(0, 0)]

\* run(): _generate_results
GenerateResults ==
    /\ pc = "results"
    /\ LET final_ribs == final_ribs_of(nodes, config.nodes)
       IN  results' = [ready |-> TRUE, timeline |-> timeline,
                       metrics |-> calculate_metrics(final_ribs),
                       final_ribs |-> final_ribs,
                       topology |-> [nodes |-> config.nodes,
                                     edges |-> config.links]]
    /\ pc' = "done"
    /\ last' = [NoLast EXCEPT !.op = "results"]
    /\ UNCHANGED <<heap, config, nodes, set_order, timeline, current_step,
                   best_route_changes_total, phase, flap_i, iteration,
                   converged, updates_to_process, upd_i, calls>>

Next ==
    \/ BuildTopology
    \/ EstablishSessions
    \/ Announce
    \/ Withdraw
    \/ StartPropagation
    \/ Stage
    \/ Apply
    \/ EndRound
    \/ PropagationDone
    \/ GenerateResults

Spec == Init /\ [][Next]_vars

(***************************************************************************)
(* One ASNode driven call by call, as the unit tests drive it:             *)
(* node = ASNode("100", policy), then any sequence of the public methods   *)
(***************************************************************************)
ApiAsn == A100
ApiPeers == {A200, A30}
ApiPrefixes == {P1}
ApiLocalPrefs == {100, 150}
ApiMeds == {0, 1}
ApiPolicies == {DefaultPolicy, Policy([x \in {A200} |-> 150], << >>, 0)}

\* as_path values: a head followed by copies of one tail.  A peer hands over
\* paths that start with itself or with "200", so that two peers can offer
\* routes with the same first-hop AS.
PathOf(h, t, n) == [i \in 1..n |-> IF i = 1 THEN h ELSE t]
ApiPaths(from_asn) ==
    {PathOf(from_asn, A200, n) : n \in 1..MaxPathLen} \cup {<<A200>>}
\* paths that carry the node's own asn behind the peer's
ApiLoopPaths(from_asn) ==
    {PathOf(from_asn, ApiAsn, n) : n \in 2..MaxPathLen}

\* the routes a peer hands over; some carry the node's own asn, and one
\* lacks its next_hop
ApiRoutes(from_asn) ==
    {Route(prefix, as_path, origin, local_pref, med, from_asn) :
        prefix \in ApiPrefixes, as_path \in ApiPaths(from_asn),
        origin \in OriginType, local_pref \in ApiLocalPrefs, med \in ApiMeds}
    \cup {Route(prefix, as_path, "IGP", DefaultLocalPref, DefaultMed, from_asn) :
             prefix \in ApiPrefixes, as_path \in ApiLoopPaths(from_asn)}
    \cup {Route(prefix, <<from_asn>>, "IGP", DefaultLocalPref, DefaultMed, None) :
             prefix \in ApiPrefixes}

InitNode ==
    /\ config = ApiConfig
    /\ \E policy \in ApiPolicies : nodes = [a \in {ApiAsn} |-> ASNode(a, policy)]
    /\ set_order = EmptyMap
    /\ timeline = << >>
    /\ current_step = 0
    /\ best_route_changes_total = 0
    /\ pc = "api"
    /\ phase = "none"
    /\ flap_i = 0
    /\ iteration = 0
    /\ converged = FALSE
    /\ updates_to_process = << >>
    /\ upd_i = 1
    /\ last = NoLast
    /\ results = NoResults
    /\ calls = 0
    /\ heap = EmptyHeap

ApiFrame ==
    /\ calls' = calls + 1
    /\ UNCHANGED <<heap, config, set_order, timeline, current_step,
                   best_route_changes_total, pc, phase, flap_i, iteration,
                   converged, updates_to_process, upd_i, results>>

CallAddNeighbor ==
    /\ pc = "api"
    /\ calls < MaxCalls
    /\ \E peer \in ApiPeers :
          /\ nodes' = [nodes EXCEPT ![ApiAsn] = add_neighbor(@, peer)]
          /\ last' = [NoLast EXCEPT !.op = "add_neighbor", !.asn = ApiAsn,
                                    !.from_asn = peer]
    /\ ApiFrame

CallOriginate ==
    /\ pc = "api"
    /\ calls < MaxCalls
    /\ \E prefix \in ApiPrefixes :
          LET r == originate_route(nodes[ApiAsn], prefix)
          IN  /\ nodes' = [nodes EXCEPT ![ApiAsn] = r.node]
              /\ last' = [op |-> "originate", asn |-> ApiAsn,
                          prefix |-> prefix, route |-> Some(r.ret),
                          from_asn |-> ApiAsn, ret |-> FALSE, best |-> r.best]
    /\ ApiFrame

CallReceive ==
    /\ pc = "api"
    /\ calls < MaxCalls
    /\ \E from_asn \in ApiPeers :
          \E route \in ApiRoutes(from_asn) :
              LET r == receive_route(nodes[ApiAsn], route, from_asn)
              IN  /\ nodes' = [nodes EXCEPT ![ApiAsn] = r.node]
                  /\ last' = [op |-> "receive", asn |-> ApiAsn,
                              prefix |-> route.prefix, route |-> Some(route),
                              from_asn |-> from_asn, ret |-> r.ret,
                              best |-> r.best]
    /\ ApiFrame

CallWithdraw ==
    /\ pc = "api"
    /\ calls < MaxCalls
    /\ \E from_asn \in ApiPeers \cup {ApiAsn}, prefix \in ApiPrefixes :
          LET r == withdraw_route(nodes[ApiAsn], prefix, from_asn)
          IN  /\ nodes' = [nodes EXCEPT ![ApiAsn] = r.node]
              /\ last' = [op |-> "withdraw", asn |-> ApiAsn,
                          prefix |-> prefix, route |-> None,
                          from_asn |-> from_asn, ret |-> r.ret,
                          best |-> r.best]
    /\ ApiFrame

NextNode ==
    \/ CallAddNeighbor
    \/ CallOriginate
    \/ CallReceive
    \/ CallWithdraw

SpecNode == InitNode /\ [][NextNode]_vars

\* The same node after the calls of the decision-process tests (add_neighbor
\* for "200" and "30", then one route received from each), with one call
\* left to make
InitSeeded ==
    /\ config = ApiConfig
    /\ \E policy \in ApiPolicies :
          \E route1 \in ApiRoutes(A200), route2 \in ApiRoutes(A30) :
              LET n0 == add_neighbor(add_neighbor(ASNode(ApiAsn, policy),
                                                  A200), A30)
                  n1 == receive_route(n0, route1, A200).node
                  n2 == receive_route(n1, route2, A30).node
              IN  nodes = [a \in {ApiAsn} |-> n2]
    /\ set_order = EmptyMap
    /\ timeline = << >>
    /\ current_step = 0
    /\ best_route_changes_total = 0
    /\ pc = "api"
    /\ phase = "none"
    /\ flap_i = 0
    /\ iteration = 0
    /\ converged = FALSE
    /\ updates_to_process = << >>
    /\ upd_i = 1
    /\ last = NoLast
    /\ results = NoResults
    /\ calls = MaxCalls - 1
    /\ heap = EmptyHeap

SpecSeeded == InitSeeded /\ [][NextNode]_vars

(***************************************************************************)
(* Route objects driven directly, as test_route_clone does: a Route is     *)
(* constructed, then objects are cloned and mutated with the statements    *)
(* the program mutates Routes with.                                        *)
(***************************************************************************)
\* the Route objects a run of the driver may hold, and its statements
MaxRoutes == 3
MaxRouteOps == MaxCalls + 1
RouteObjs == 1..Len(heap.routes)
\* the objects the driver clones and mutates itself: the first allocated
HeldObjs == {r \in RouteObjs : r <= MaxRoutes}
RoutePaths == {<< >>, <<A100>>, <<A200>>}
RouteAsns == {A200, A300}
RouteLocalPrefs == {DefaultLocalPref, 150}
\* the ASes appended to and inserted into an as_path
AppendAsns == {A300}
InsertAsns == {A200}
RouteNextHops == {None, A200}
\* the policies of the node that stages and receives the routes
RoutePolicies ==
    {DefaultPolicy, Policy(EmptyMap, << >>, MaxPrepend),
     Policy(EmptyMap, <<<<"deny", P1>>>>, 0),
     Policy([x \in {A200} |-> 150], << >>, 0)}

InitRoute ==
    /\ config = ApiConfig
    /\ \E policy \in RoutePolicies :
          nodes = [a \in {ApiAsn} |-> ASNode(a, policy)]
    /\ set_order = EmptyMap
    /\ timeline = << >>
    /\ current_step = 0
    /\ best_route_changes_total = 0
    /\ pc = "route"
    /\ phase = "none"
    /\ flap_i = 0
    /\ iteration = 0
    /\ converged = FALSE
    /\ updates_to_process = << >>
    /\ upd_i = 1
    /\ last = NoLast
    /\ results = NoResults
    /\ calls = 0
    /\ \E as_path \in RoutePaths, next_hop \in RouteNextHops :
          heap = new_Route([EmptyHeap EXCEPT !.lists = <<as_path>>], P1, 1,
                           "IGP", DefaultLocalPref, DefaultMed, next_hop)

RouteFrame ==
    /\ pc = "route"
    /\ calls < MaxRouteOps
    /\ calls' = calls + 1
    /\ UNCHANGED <<config, nodes, set_order, timeline, current_step,
                   best_route_changes_total, pc, phase, flap_i, iteration,
                   converged, updates_to_process, upd_i, results>>

\* r.clone()
CallClone ==
    /\ RouteFrame
    /\ Len(heap.routes) < MaxRoutes
    /\ \E r \in HeldObjs :
          /\ heap' = clone_object(heap, r)
          /\ last' = [NoLast EXCEPT !.op = "clone"]

\* r.as_path.append(asn)
AppendAsPath ==
    /\ RouteFrame
    /\ \E r \in HeldObjs, asn \in AppendAsns :
          /\ heap' = [heap EXCEPT !.lists[heap.routes[r].as_path] = Append(@, asn),
                                  !.self = r, !.ret = 0]
          /\ last' = [NoLast EXCEPT !.op = "append"]

\* r.as_path.insert(0, asn)
InsertAsPath ==
    /\ RouteFrame
    /\ \E r \in HeldObjs, asn \in InsertAsns :
          /\ heap' = [heap EXCEPT !.lists[heap.routes[r].as_path] = <<asn>> \o @,
                                  !.self = r, !.ret = 0]
          /\ last' = [NoLast EXCEPT !.op = "insert"]

\* r.local_pref = v, r.next_hop = asn
SetField ==
    /\ RouteFrame
    /\ \E r \in HeldObjs :
          /\ \/ \E v \in RouteLocalPrefs \ {heap.routes[r].local_pref} :
                   heap' = [heap EXCEPT !.routes[r].local_pref = v,
                                        !.self = r, !.ret = 0]
             \/ \E asn \in (RouteNextHops \ {None, heap.routes[r].next_hop}) :
                   heap' = [heap EXCEPT !.routes[r].next_hop = asn,
                                        !.self = r, !.ret = 0]
          /\ last' = [NoLast EXCEPT !.op = "set"]

\* adv_route = node.prepare_advertisement(route, neighbor_asn), the call the
\* staging loops make for a route of the node's rib, here also for an
\* object of the driver; last.from_asn is the neighbor
CallPrepareAdvertisement ==
    /\ RouteFrame
    /\ Len(heap.routes) <= MaxRoutes
    /\ \E route \in HeldObjs \cup {heap.rib[i].v : i \in 1..Len(heap.rib)},
          neighbor_asn \in RouteAsns :
          /\ heap' = prepare_advertisement_object(heap, nodes[ApiAsn], route,
                                                  neighbor_asn)
          /\ last' = [NoLast EXCEPT !.op = "prepare", !.asn = ApiAsn,
                                    !.from_asn = neighbor_asn]

\* node.originate_route(prefix)
CallOriginateObject ==
    /\ RouteFrame
    /\ Len(heap.routes) <= 2 * MaxRoutes
    /\ LET r == originate_route_object(heap, nodes[ApiAsn], P1)
       IN  /\ heap' = r.heap
           /\ last' = [NoLast EXCEPT !.op = "originate", !.asn = ApiAsn,
                                     !.prefix = P1, !.ret = r.ret]

\* changed = node.receive_route(route, from_asn), the call the simulator
\* makes with a staged advertisement, here with the object the last call
\* returned or an object of the driver
CallReceiveObject ==
    /\ RouteFrame
    /\ Len(heap.routes) <= 2 * MaxRoutes
    /\ \E route \in HeldObjs \cup ({heap.ret} \cap RouteObjs),
          from_asn \in RouteAsns :
          LET r == receive_route_object(heap, nodes[ApiAsn], route, from_asn)
          IN  /\ heap' = r.heap
              /\ last' = [NoLast EXCEPT !.op = "receive", !.asn = ApiAsn,
                                        !.prefix = heap.routes[route].prefix,
                                        !.from_asn = from_asn, !.ret = r.ret]

NextRoute ==
    \/ CallClone
    \/ AppendAsPath
    \/ InsertAsPath
    \/ SetField
    \/ CallPrepareAdvertisement
    \/ CallOriginateObject
    \/ CallReceiveObject

SpecRoute == InitRoute /\ [][NextRoute]_vars

(***************************************************************************)
(* Properties                                                              *)
(***************************************************************************)
RibHas(n, prefix) == DictHas(nodes[n].rib, prefix)
RibGet(n, prefix) == DictGet(nodes[n].rib, prefix)

\* the last call ran the decision process of node n for prefix and found
\* candidates to choose from
Decided(n, prefix) ==
    /\ last.op \in {"receive", "originate", "withdraw"}
    /\ last.asn = n
    /\ last.prefix = prefix
    /\ ~IsNone(last.best)

DistinctFirstHops(cands) ==
    \A c, d \in cands : c # d => first_as(c) # first_as(d)

\* C1: right after an accepted receive_route or an originate_route, the
\* local_pref of rib[prefix] is the highest local_pref among the candidates
\* held in rib_in[*][prefix], whatever their MED, path, origin and first hop.
C1_LocalPrefHighest ==
    \A n \in DOMAIN nodes : \A prefix \in DictKeys(nodes[n].rib) :
        (Decided(n, prefix) /\ last.op \in {"receive", "originate"}) =>
            \A c \in Candidates(nodes[n], prefix) :
                RibGet(n, prefix).local_pref >= c.route.local_pref

\* the sort key the decision process is documented to order candidates by
C2_Key(c) ==
    <<0 - c.route.local_pref, Len(c.route.as_path),
      CASE c.route.origin = "IGP" -> 0
        [] c.route.origin = "EGP" -> 1
        [] c.route.origin = "INCOMPLETE" -> 2>>

C2_Before(c, d) ==
    LET k == C2_Key(c)
        m == C2_Key(d)
    IN  \/ k[1] < m[1]
        \/ k[1] = m[1] /\ k[2] < m[2]
        \/ k[1] = m[1] /\ k[2] = m[2] /\ k[3] < m[3]
        \/ k = m /\ StrLess(c.neighbor, d.neighbor)

ZeroMed(cands) ==
    {[route |-> [c.route EXCEPT !.med = 0], neighbor |-> c.neighbor] : c \in cands}

C4_LoopRejected ==
    [][(last'.op = "receive" /\ has_loop(Val(last'.route), last'.asn)) =>
          (last'.ret = FALSE /\ nodes' = nodes)]_vars

\* a looping route arrived from a peer that already has a route stored
C4_Witness ==
    /\ last.op = "receive"
    /\ has_loop(Val(last.route), last.asn)
    /\ last.from_asn \in DOMAIN nodes[last.asn].rib_in
    /\ last.prefix \in DOMAIN nodes[last.asn].rib_in[last.from_asn]
    /\ RibHas(last.asn, last.prefix)

\* C5: prepare_advertisement suppresses a route whose next_hop is the peer
\* it would go to, so the queue staged at the start of a round holds no
\* update for a prefix towards the next_hop of the sender's best route.
C5_SplitHorizon ==
    /\ \A n \in DOMAIN nodes : \A prefix \in DictKeys(nodes[n].rib) :
           \A to_asn \in nodes[n].neighbors :
               RibGet(n, prefix).next_hop = to_asn =>
                   IsNone(prepare_advertisement(nodes[n], RibGet(n, prefix), to_asn))
    /\ (pc = "apply" /\ upd_i = 1) =>
           \A i \in 1..Len(updates_to_process) :
               LET u == updates_to_process[i]
               IN  RibGet(u.from_asn, u.prefix).next_hop # u.to_asn

\* a round staged updates while some node held a route learned from a peer:
\* it sent the route on to another peer, and nothing back to the next_hop
C5_Witness ==
    /\ pc = "apply" /\ upd_i = 1
    /\ \E n \in DOMAIN nodes : \E prefix \in DictKeys(nodes[n].rib) :
          /\ RibGet(n, prefix).next_hop \in nodes[n].neighbors
          /\ \E i \in 1..Len(updates_to_process) :
                /\ updates_to_process[i].from_asn = n
                /\ updates_to_process[i].prefix = prefix

RECURSIVE ReachableFrom(_, _)
ReachableFrom(S, links) ==
    LET T == S \cup UNION {NeighborsOf(links, a) : a \in S}
    IN  IF T = S THEN S ELSE ReachableFrom(T, links)

Connected(cfg) ==
    ReachableFrom({cfg.origin_as}, cfg.links) =
        {cfg.nodes[i] : i \in 1..Len(cfg.nodes)}

NoDenyFilters(cfg) ==
    \A a \in DOMAIN cfg.policies :
        \A i \in 1..Len(cfg.policies[a].export_filters) :
            cfg.policies[a].export_filters[i][1] # "deny"

\* C6: a baseline run on a connected peering graph, without deny filters
\* and with the default max_steps, ends with every configured prefix in
\* every node's rib.
C6_BaselineReachability ==
    (/\ pc = "done"
     /\ config.scenario = "baseline"
     /\ config.max_steps = DefaultMaxSteps
     /\ Connected(config)
     /\ NoDenyFilters(config)) =>
        \A n \in DOMAIN nodes : \A i \in 1..Len(config.prefixes) :
            RibHas(n, config.prefixes[i])

\* a finished baseline run on a chain (one node is two hops from the
\* origin) in which a node carries a local_pref or prepend policy
C6_Witness ==
    /\ pc = "done"
    /\ config.scenario = "baseline"
    /\ config.max_steps = DefaultMaxSteps
    /\ Connected(config)
    /\ NoDenyFilters(config)
    /\ Len(config.links) = 2
    /\ DOMAIN config.policies # {}
    /\ \A n \in DOMAIN nodes : \A i \in 1..Len(config.prefixes) :
           RibHas(n, config.prefixes[i])

\* C7: for every node and prefix, the prefix is in rib exactly when some
\* rib_in[peer] holds a route for it, and rib[prefix] is then the decision
\* process's winner over those candidates (equal as _routes_equal has it).
C7_RibMatchesRibIn ==
    \A n \in DOMAIN nodes : \A prefix \in Prefixes :
        LET cands == Candidates(nodes[n], prefix)
        IN  /\ RibHas(n, prefix) <=> cands # {}
            /\ (RibHas(n, prefix) /\ cands # {}) =>
                   routes_equal(RibGet(n, prefix), select_best_route(cands))

\* C8: every prefix in a node's rib has a candidate in at least one
\* rib_in[peer] of that node, the node's own entry included.
C8_NoInventedRoutes ==
    \A n \in DOMAIN nodes : \A prefix \in DictKeys(nodes[n].rib) :
        \E p \in DOMAIN nodes[n].rib_in : prefix \in DOMAIN nodes[n].rib_in[p]

\* the origin originated and, in a flap, lost its rib entry again, while
\* another node holds the prefix it learned from a peer
C8_Witness ==
    /\ phase = "flap_withdraw"
    /\ pc = "loop"
    /\ ~RibHas(config.origin_as, P1)
    /\ \E n \in DOMAIN nodes :
          /\ n # config.origin_as
          /\ RibHas(n, P1)
          /\ RibGet(n, P1).next_hop # n

\* C9 as stated: after a run no rib route of a node, the originating nodes
\* included, carries the node's own ASN in its as_path.
C9_NoOwnAsnInRib ==
    pc = "done" =>
        \A n \in DOMAIN nodes : \A prefix \in DictKeys(nodes[n].rib) :
            ~has_loop(RibGet(n, prefix), n)

\* C9 amended: after a run a rib route of node n either is the route n
\* originated itself, whose as_path is [n], or has an as_path without n.
C9_OwnAsnOnlyWhenOriginated ==
    pc = "done" =>
        \A n \in DOMAIN nodes : \A prefix \in DictKeys(nodes[n].rib) :
            \/ RibGet(n, prefix).as_path = <<n>>
            \/ ~has_loop(RibGet(n, prefix), n)

\* a finished run in which the origin holds its own route and another node
\* holds a learned route of two or more hops
C9_Witness ==
    /\ pc = "done"
    /\ RibHas(config.origin_as, P1)
    /\ RibGet(config.origin_as, P1).as_path = <<config.origin_as>>
    /\ \E n \in DOMAIN nodes :
          /\ RibHas(n, P1)
          /\ Len(RibGet(n, P1).as_path) >= 2
          /\ ~has_loop(RibGet(n, P1), n)

\* C10: every route stored in rib_in[p] of any node has p as the leftmost
\* element of its as_path and as its next_hop.
C10_RibInFirstHopIsPeer ==
    \A r \in DOMAIN nodes : \A p \in DOMAIN nodes[r].rib_in :
        \A prefix \in DOMAIN nodes[r].rib_in[p] :
            LET route == nodes[r].rib_in[p][prefix]
            IN  /\ Len(route.as_path) > 0
                /\ route.as_path[1] = p
                /\ route.next_hop = p

\* a node stores a route that its peer p learned from elsewhere and
\* exported with as_path_prepend > 0
C10_Witness ==
    \E r \in DOMAIN nodes : \E p \in DOMAIN nodes[r].rib_in :
        /\ p # r
        /\ nodes[p].policy.as_path_prepend > 0
        /\ P1 \in DOMAIN nodes[r].rib_in[p]
        /\ nodes[r].rib_in[p][P1].as_path[1] = p
        /\ nodes[r].rib_in[p][P1].as_path[Len(nodes[r].rib_in[p][P1].as_path)] # p

\* the number of peerings on a shortest chain of links from S to node n,
\* S being the set of nodes at distance d
RECURSIVE HopsFrom(_, _, _, _)
HopsFrom(S, d, n, links) ==
    IF n \in S THEN d
    ELSE LET T == S \cup {b \in NodeSet : \E a \in S : b \in NeighborsOf(links, a)}
         IN  IF T = S THEN 0 - 1 ELSE HopsFrom(T, d + 1, n, links)

HopDistance(cfg, n) == HopsFrom({cfg.origin_as}, 0, n, cfg.links)

\* C11 as stated: at the end of a baseline run with default policies the
\* rib route of node n for an originated prefix lists the ASes from n
\* (leftmost) back to the origin (rightmost) and has one entry more than n
\* has hops to the origin; in the triangle where "300" prefers "100" by
\* local_pref the route of "300" is ["300", "100"].
C11_PathFromSelfToOrigin ==
    (pc = "done" /\ config.scenario = "baseline"
         /\ config.max_steps = DefaultMaxSteps) =>
        /\ DOMAIN config.policies = {} =>
              \A n \in DOMAIN nodes : \A prefix \in DictKeys(nodes[n].rib) :
                  LET as_path == RibGet(n, prefix).as_path
                  IN  /\ Len(as_path) = HopDistance(config, n) + 1
                      /\ as_path[1] = n
                      /\ as_path[Len(as_path)] = config.origin_as
        /\ (/\ config.links = AllLinks
            /\ config.origin_as = A100
            /\ config.policies = [x \in {A300} |->
                                     Policy([y \in {A100} |-> 150], << >>, 0)]) =>
              RibGet(A300, P1).as_path = <<A300, A100>>

\* the hijack scenario on the chain 100-200-300, origin "100", hijacker
\* "300", default policies
ChainHijack ==
    /\ config.links = SubSeq(AllLinks, 1, 2)
    /\ config.origin_as = A100
    /\ config.scenario = "hijack"
    /\ config.hijacker = A300
    /\ DOMAIN config.policies = {}

\* C12 as stated: at the end of the chain hijack run the best route of
\* "200" is the one heard from the hijacker "300", and
\* metrics.hijack_coverage_pct is greater than 0.
C12_HijackerPathWins ==
    (pc = "done" /\ ChainHijack) =>
        /\ \A i \in 1..Len(config.prefixes) :
              /\ RibHas(A200, config.prefixes[i])
              /\ RibGet(A200, config.prefixes[i]).next_hop = A300
        /\ results.metrics.hijack_coverage_pct.num > 0
        /\ results.metrics.hijack_coverage_pct.den > 0

\* C12 amended: at the end of the chain hijack run the best route of "200"
\* is still the one heard from the origin "100", the hijacker "300" is in no
\* rib path of "100" or "200", and metrics.hijack_coverage_pct is 0.
C12_OriginPathKept ==
    (pc = "done" /\ ChainHijack) =>
        /\ \A i \in 1..Len(config.prefixes) :
              /\ RibHas(A200, config.prefixes[i])
              /\ RibGet(A200, config.prefixes[i]).next_hop = A100
              /\ ~InSeq(A300, RibGet(A200, config.prefixes[i]).as_path)
              /\ ~InSeq(A300, RibGet(A100, config.prefixes[i]).as_path)
        /\ results.metrics.hijack_coverage_pct.num = 0

\* the chain hijack run ended, and "200" holds the origin's and the
\* hijacker's routes, which tie on local_pref, path length and origin
C12_Witness ==
    /\ pc = "done"
    /\ ChainHijack
    /\ \E c, d \in Candidates(nodes[A200], P1) :
          /\ c.neighbor = A100 /\ d.neighbor = A300
          /\ c.route.local_pref = d.route.local_pref
          /\ Len(c.route.as_path) = Len(d.route.as_path)
          /\ c.route.origin = d.route.origin
          /\ d.route.as_path = <<A300>>
    /\ RibGet(A200, P1).next_hop = A100

\* C13 as stated: right after originate_route(prefix) on node n, whatever n
\* held before, rib[prefix] has as_path [n] and next_hop n, rib_in[n][prefix]
\* holds that route, and the returned route is the one in rib.
C13_OriginationInstallsOwnRoute ==
    \A n \in DOMAIN nodes :
        (last.op = "originate" /\ last.asn = n) =>
            /\ RibHas(n, last.prefix)
            /\ RibGet(n, last.prefix).as_path = <<n>>
            /\ RibGet(n, last.prefix).next_hop = n
            /\ n \in DOMAIN nodes[n].rib_in
            /\ last.prefix \in DOMAIN nodes[n].rib_in[n]
            /\ nodes[n].rib_in[n][last.prefix] = Val(last.route)
            /\ RibGet(n, last.prefix) = Val(last.route)

\* the prefixes that an entry ("deny", prefix) of node n's policy names
DeniedBy(cfg, n) ==
    LET f == PolicyFor(cfg, n).export_filters
    IN  {f[i][2] : i \in {j \in 1..Len(f) : f[j][1] = "deny"}}

\* the links of cfg that do not touch node n
LinksWithout(cfg, n) ==
    SelectSeq(cfg.links, LAMBDA l : l[1] # n /\ l[2] # n)

\* m is reached from the origin, and only through node n
OnlyThrough(cfg, n, m) ==
    /\ m # n
    /\ m \in ReachableFrom({cfg.origin_as}, cfg.links)
    /\ \/ n = cfg.origin_as
       \/ m \notin ReachableFrom({cfg.origin_as}, LinksWithout(cfg, n))

\* C14: in a baseline run a node that the origin reaches only through a
\* node N never holds a prefix that N's policy denies, and at the end of the
\* run (default max_steps) it holds every configured prefix that N does not
\* deny.
C14_ExportDeny ==
    config.scenario = "baseline" =>
        \A n \in DOMAIN nodes : \A m \in DOMAIN nodes :
            (DeniedBy(config, n) # {} /\ OnlyThrough(config, n, m)) =>
                /\ \A prefix \in DeniedBy(config, n) : ~RibHas(m, prefix)
                /\ (pc = "done" /\ config.max_steps = DefaultMaxSteps) =>
                       \A i \in 1..Len(config.prefixes) :
                           config.prefixes[i] \notin DeniedBy(config, n) =>
                               RibHas(m, config.prefixes[i])

\* the chain 100-200-300 with a deny on "200": "300" ends without the
\* denied prefix and with the other one, which "200" holds both
C14_Witness ==
    /\ pc = "done"
    /\ config.scenario = "baseline"
    /\ config.links = SubSeq(AllLinks, 1, 2)
    /\ config.origin_as = A100
    /\ DeniedBy(config, A200) = {P1}
    /\ RibHas(A200, P1)
    /\ ~RibHas(A300, P1)
    /\ RibHas(A300, P2)

\* the action of the first entry of filters whose prefix is the given one,
\* "none" when no entry names it
FirstMatch(filters, prefix) ==
    LET hits == {i \in 1..Len(filters) : filters[i][2] = prefix}
    IN  IF hits = {} THEN "none"
        ELSE filters[CHOOSE i \in hits : \A j \in hits : i <= j][1]

\* C15 as stated: apply_export filters a route exactly when the first
\* entry of export_filters that names the route's prefix is a deny; a permit
\* entry ahead of a deny entry, or no matching entry, lets the route out.
C15_FirstMatchDecides ==
    \A n \in DOMAIN nodes : \A prefix \in DictKeys(nodes[n].rib) :
        \A to_asn \in nodes[n].neighbors :
            IsNone(apply_export(nodes[n].policy, RibGet(n, prefix), to_asn))
                <=> FirstMatch(nodes[n].policy.export_filters, prefix) = "deny"

\* the number of copies of asn at the front of as_path
RECURSIVE LeadingCopies(_, _)
LeadingCopies(as_path, asn) ==
    IF Len(as_path) = 0 \/ as_path[1] # asn THEN 0
    ELSE 1 + LeadingCopies(Tail(as_path), asn)

\* C16 as stated: whatever route of its rib a node N with as_path_prepend
\* = k advertises, the advertised as_path begins with exactly k+1 copies of
\* N; behind them comes the path N held when the route was learned from a
\* peer.
C16_PrependCopiesOfSelf ==
    \A n \in DOMAIN nodes : \A prefix \in DictKeys(nodes[n].rib) :
        \A to_asn \in nodes[n].neighbors :
            LET route == RibGet(n, prefix)
                k == nodes[n].policy.as_path_prepend
                adv == prepare_advertisement(nodes[n], route, to_asn)
            IN  ~IsNone(adv) =>
                    /\ LeadingCopies(Val(adv).as_path, n) = k + 1
                    /\ route.as_path[1] # n =>
                           SubSeq(Val(adv).as_path, k + 2,
                                  Len(Val(adv).as_path)) = route.as_path

(***************************************************************************)
(* The run as a function of the configuration and of the orders in which   *)
(* nodes, neighbors and prefixes are enumerated                            *)
(***************************************************************************)
\* for update in updates_to_process: the nodes afterwards and the number
\* of receive_route calls that returned true
RECURSIVE ApplyUpdates(_, _, _, _)
ApplyUpdates(ns, updates, i, changes) ==
    IF i > Len(updates) THEN [nodes |-> ns, changes |-> changes]
    ELSE LET update == updates[i]
             r == receive_route(ns[update.to_asn], update.adv_route,
                                update.from_asn)
         IN  ApplyUpdates([ns EXCEPT ![update.to_asn] = r.node], updates,
                          i + 1, IF r.ret THEN changes + 1 ELSE changes)

Reverse(s) == [i \in 1..Len(s) |-> s[Len(s) + 1 - i]]

\* the enumeration orders of a run: the order the nodes are staged in, each
\* node's neighbor set as a sequence, and whether the updates of a round
\* are applied as staged or backwards
Enumeration(node_seq, order, backwards) ==
    [node_seq |-> node_seq, order |-> order, backwards |-> backwards]

\* one pass of the while loop: stage from the ribs as they are, then apply
PropagationRound(ns, enum) ==
    LET staged == StageUpdates(ns, enum.node_seq, enum.order)
    IN  ApplyUpdates(ns, IF enum.backwards THEN Reverse(staged) ELSE staged,
                     1, 0)

\* while not converged and iter < max_steps
RECURSIVE propagate_until_convergence(_, _, _, _)
propagate_until_convergence(ns, enum, iter, max_steps) ==
    IF iter >= max_steps THEN ns
    ELSE LET r == PropagationRound(ns, enum)
         IN  IF r.changes = 0 THEN r.nodes
             ELSE propagate_until_convergence(r.nodes, enum, iter + 1,
                                              max_steps)

\* for prefix in prefixes: self.nodes[asn].originate_route(prefix)
RECURSIVE OriginateAll(_, _, _, _)
OriginateAll(ns, asn, prefixes, i) ==
    IF i > Len(prefixes) THEN ns
    ELSE OriginateAll([ns EXCEPT ![asn] = originate_route(@, prefixes[i]).node],
                      asn, prefixes, i + 1)

\* for prefix in prefixes: del self.nodes[origin].rib[prefix] when present
RECURSIVE WithdrawAll(_, _, _, _)
WithdrawAll(ns, asn, prefixes, i) ==
    IF i > Len(prefixes) THEN ns
    ELSE WithdrawAll([ns EXCEPT ![asn].rib =
                         IF DictHas(@, prefixes[i]) THEN DictDel(@, prefixes[i])
                         ELSE @],
                     asn, prefixes, i + 1)

run_baseline(ns, cfg, prefixes, enum) ==
    propagate_until_convergence(OriginateAll(ns, cfg.origin_as, prefixes, 1),
                                enum, 0, cfg.max_steps)

run_hijack(ns, cfg, prefixes, enum) ==
    IF cfg.hijacker = None THEN run_baseline(ns, cfg, prefixes, enum)
    ELSE LET legit == run_baseline(ns, cfg, prefixes, enum)
         IN  propagate_until_convergence(
                 OriginateAll(legit, cfg.hijacker, prefixes, 1),
                 enum, 0, cfg.max_steps)

RECURSIVE run_route_flap(_, _, _, _, _)
run_route_flap(ns, cfg, prefixes, enum, i) ==
    IF i >= cfg.flap_count THEN ns
    ELSE LET announced == run_baseline(ns, cfg, prefixes, enum)
             withdrawn == propagate_until_convergence(
                              WithdrawAll(announced, cfg.origin_as, prefixes, 1),
                              enum, 0, cfg.max_steps)
         IN  run_route_flap(withdrawn, cfg, prefixes, enum, i + 1)

\* the nodes at the end of run() when the prefixes are announced in the
\* order prefixes and the rounds enumerate as enum says
RunNodes(cfg, prefixes, enum) ==
    LET ns == build_topology(cfg)
    IN  CASE cfg.scenario = "baseline" ->
                 run_baseline(ns, cfg, prefixes, enum)
          [] cfg.scenario = "hijack" ->
                 run_hijack(ns, cfg, prefixes, enum)
          [] cfg.scenario = "route_flap" ->
                 run_route_flap(ns, cfg, prefixes, enum, 0)
          [] OTHER -> ns

\* one fixed enumeration of every node's neighbor set
FixedOrder(cfg) ==
    [n \in NodeSet |-> CHOOSE o \in Orders(NeighborsOf(cfg.links, n)) : TRUE]

\* final_ribs read as a mapping: node -> prefix -> route
RibsAsMapping(ribs) ==
    [asn \in DOMAIN ribs |->
        [prefix \in DictKeys(ribs[asn]) |-> DictGet(ribs[asn], prefix)]]

\* C17: read as a mapping, the final_ribs of a run are those of the run of
\* the same config that enumerates every neighbor set in one fixed order
\* and applies the updates of each round backwards, and those of the run
\* that enumerates the nodes, every neighbor set and the prefixes
\* backwards: the result depends on none of these orders.
C17_OrderIndependentRibs ==
    pc = "done" =>
        /\ RibsAsMapping(results.final_ribs) =
               RibsAsMapping(
                   final_ribs_of(
                       RunNodes(config, config.prefixes,
                                Enumeration(config.nodes, FixedOrder(config),
                                            TRUE)),
                       config.nodes))
        /\ RibsAsMapping(results.final_ribs) =
               RibsAsMapping(
                   final_ribs_of(
                       RunNodes(config, Reverse(config.prefixes),
                                Enumeration(Reverse(config.nodes),
                                            [n \in NodeSet |-> Reverse(set_order[n])],
                                            FALSE)),
                       config.nodes))

\* a finished hijack on the triangle with two prefixes whose neighbor sets
\* were not enumerated in the fixed order: "300" hears the prefix from the
\* origin and from the hijacker with keys that tie up to the peer
C17_Witness ==
    /\ pc = "done"
    /\ config.links = AllLinks
    /\ config.scenario = "hijack" /\ config.origin_as = A200
    /\ config.hijacker = A100
    /\ Len(config.prefixes) = 2
    /\ set_order # FixedOrder(config)
    /\ Cardinality(Candidates(nodes[A300], P1)) = 2
    /\ \A c, d \in Candidates(nodes[A300], P1) :
           /\ c.route.local_pref = d.route.local_pref
           /\ Len(c.route.as_path) = Len(d.route.as_path)
    /\ RibHas(A300, P2)

\* the open events _establish_sessions logs when the neighbor sets are
\* enumerated as order says
OpenEvents(ns, node_seq, order, ts) ==
    LET pairs == PeerPairs(ns, node_seq, order)
    IN  [p \in 1..Len(pairs) |->
            Event(ts, "open", pairs[p][1], pairs[p][2], NoPrefix,
                  <<"BGP session established">>)]

\* the enumerations the neighbor sets of a configuration admit
NeighborOrders(cfg) ==
    {o \in [NodeSet -> UNION {Orders(NeighborsOf(cfg.links, n)) : n \in NodeSet}] :
        \A n \in NodeSet : o[n] \in Orders(NeighborsOf(cfg.links, n))}

\* C18: the timeline of a run does not depend on the order in which the
\* neighbor sets are enumerated: once the sessions are established it
\* holds the open events that every enumeration of the neighbor sets
\* yields, and the updates a round stages are queued in the order every
\* enumeration yields.
C18_TimelineSameForEveryOrder ==
    /\ last.op = "sessions" =>
           \A o \in NeighborOrders(config) :
               timeline = OpenEvents(nodes, config.nodes, o, current_step)
    /\ last.op = "stage" =>
           \A o \in NeighborOrders(config) :
               updates_to_process = StageUpdates(nodes, config.nodes, o)

\* C19: an invocation of the convergence driver runs at most max_steps
\* rounds; after a round in which no receive_route returned true, and after
\* max_steps rounds, no further round can start and the driver returns to
\* its caller; before that it does not return; the results can then be
\* generated, and they carry current_step as convergence_steps.
C19_DriverTerminates ==
    /\ iteration <= config.max_steps
    /\ (pc = "loop" /\ (converged \/ iteration = config.max_steps)) =>
           (~ENABLED Stage /\ ENABLED PropagationDone)
    /\ (pc = "loop" /\ ~converged /\ iteration < config.max_steps) =>
           ~ENABLED PropagationDone
    /\ pc = "results" => ENABLED GenerateResults
    /\ pc = "done" =>
           /\ results.ready
           /\ results.metrics.convergence_steps = current_step

\* a finished run whose last invocation of the driver used up max_steps
\* rounds and whose last round still changed a best route
C19_Witness ==
    /\ pc = "done"
    /\ results.ready
    /\ iteration = config.max_steps
    /\ ~converged
    /\ results.metrics.convergence_steps = current_step
    /\ results.metrics.best_route_changes_total > 0

\* C20: when the driver has stopped with rounds to spare, one more full
\* propagation round from that state returns no true from any
\* receive_route (so nothing is added to best_route_changes_total and no
\* update event is logged) and leaves every node's rib and rib_in as they
\* are.
C20_ConvergedIsFixpoint ==
    (pc = "loop" /\ converged /\ iteration < config.max_steps) =>
        LET round == PropagationRound(nodes,
                         Enumeration(config.nodes, set_order, FALSE))
        IN  /\ round.changes = 0
            /\ \A n \in NodeSet :
                   /\ round.nodes[n].rib = nodes[n].rib
                   /\ round.nodes[n].rib_in = nodes[n].rib_in

\* the driver stopped with rounds to spare after rounds that changed best
\* routes, and a further round would stage updates for "300"
C20_Witness ==
    /\ pc = "loop" /\ converged /\ iteration < config.max_steps
    /\ iteration > 1
    /\ best_route_changes_total > 0
    /\ \E i \in 1..Len(StageUpdates(nodes, config.nodes, set_order)) :
           StageUpdates(nodes, config.nodes, set_order)[i].to_asn = A300

\* with the origin's rib entries put back, a further propagation round
\* would change nothing: the announcements before the withdraw have settled
FlapSettled ==
    LET restored == OriginateAll(nodes, config.origin_as, config.prefixes, 1)
        round == PropagationRound(restored,
                     Enumeration(config.nodes, set_order, FALSE))
    IN  round.changes = 0 /\ round.nodes = restored

\* what a step of the withdraw half of a flap may do: take the prefix of a
\* withdraw step out of the origin's rib, and nothing else
FlapWithdrawFrame ==
    LET origin == config.origin_as
    IN  /\ \A n \in NodeSet \ {origin} :
               /\ nodes'[n].rib = nodes[n].rib
               /\ nodes'[n].rib_in = nodes[n].rib_in
        /\ nodes'[origin].rib_in = nodes[origin].rib_in
        /\ \A i \in 1..Len(config.prefixes) :
               /\ config.prefixes[i] \in DOMAIN nodes'[origin].rib_in[origin]
               /\ nodes'[origin].rib_in[origin][config.prefixes[i]].as_path
                      = <<origin>>
        /\ IF last'.op = "flap_withdraw"
           THEN /\ ~DictHas(nodes'[origin].rib, last'.prefix)
                /\ nodes'[origin].rib = DictDel(nodes[origin].rib, last'.prefix)
           ELSE nodes'[origin].rib = nodes[origin].rib

\* the origination that follows puts the origin's own route back into rib
FlapRestores ==
    (phase = "flap_announce" /\ last'.op = "originate") =>
        /\ DictHas(nodes'[config.origin_as].rib, last'.prefix)
        /\ DictGet(nodes'[config.origin_as].rib, last'.prefix).as_path
               = <<config.origin_as>>

\* C21 as stated: in the withdraw half of every flap, the withdraw steps and
\* the convergence after them change the origin's rib only, rib_in[origin]
\* of the origin keeps the originated routes, and the next origination
\* restores the origin's rib entry.
C21_FlapTouchesOnlyOriginRib ==
    [][/\ phase = "flap_withdraw" => FlapWithdrawFrame
       /\ FlapRestores]_vars

\* C21 amended: the same, for the withdraw halves that begin after the
\* announcements have settled; when max_steps cut the announce half short,
\* the rounds after the withdraw go on carrying the route to further nodes.
C21_SettledFlapTouchesOnlyOriginRib ==
    [][/\ (phase = "flap_withdraw" /\ FlapSettled) => FlapWithdrawFrame
       /\ FlapRestores]_vars

\* an update is applied in the convergence after a withdraw: the
\* announcements had settled, "300" holds the prefix and the origin does not
C21_Witness ==
    /\ phase = "flap_withdraw" /\ pc = "apply" /\ last.op = "receive"
    /\ FlapSettled
    /\ config.origin_as = A100
    /\ RibHas(A300, P1) /\ ~RibHas(A100, P1)
    /\ P1 \in DOMAIN nodes[A100].rib_in[A100]

\* the (node, prefix) pairs whose rib entry a step installs, replaces or
\* removes
RibChanges ==
    {np \in (DOMAIN nodes') \X Prefixes :
        LET before == IF np[1] \in DOMAIN nodes /\ DictHas(nodes[np[1]].rib, np[2])
                      THEN Some(DictGet(nodes[np[1]].rib, np[2])) ELSE None
            after  == IF DictHas(nodes'[np[1]].rib, np[2])
                      THEN Some(DictGet(nodes'[np[1]].rib, np[2])) ELSE None
        IN  before # after}

\* C22: best_route_changes_total never decreases, and every step of a run
\* adds to it the number of rib entries the step installed, replaced or
\* removed, so that at the end it counts the best-path changes of all
\* nodes by any cause.
C22_CounterCountsEveryChange ==
    [][/\ best_route_changes_total' >= best_route_changes_total
       /\ best_route_changes_total' =
              best_route_changes_total + Cardinality(RibChanges)]_vars

\* rib[prefix] of a node as an optional route
RibEntry(node, prefix) ==
    IF DictHas(node.rib, prefix) THEN Some(DictGet(node.rib, prefix)) ELSE None

\* what a withdraw_route call does to rib_in, and what it returns; Winner
\* tells whether rib[prefix] is the route the decision process picked
WithdrawEffect(Winner(_, _)) ==
    last'.op = "withdraw" =>
        LET node == nodes[last'.asn]
            after == nodes'[last'.asn]
            from_asn == last'.from_asn
            prefix == last'.prefix
        IN  IF /\ from_asn \in DOMAIN node.rib_in
               /\ prefix \in DOMAIN node.rib_in[from_asn]
            THEN /\ after.rib_in =
                        [node.rib_in EXCEPT ![from_asn] = MapDel(@, prefix)]
                 /\ \A p \in DictKeys(node.rib) \cup DictKeys(after.rib) :
                        p # prefix => RibEntry(after, p) = RibEntry(node, p)
                 /\ IF Candidates(after, prefix) = {}
                    THEN ~DictHas(after.rib, prefix)
                    ELSE /\ DictHas(after.rib, prefix)
                         /\ Winner(DictGet(after.rib, prefix),
                                   select_best_route(Candidates(after, prefix)))
                 /\ last'.ret <=> RibEntry(after, prefix) # RibEntry(node, prefix)
            ELSE /\ ~last'.ret
                 /\ after.rib = node.rib
                 /\ after.rib_in = node.rib_in

\* C23 as stated: after a withdraw_route that found its entry, rib[prefix]
\* is the route the decision process selects among the remaining
\* candidates, in every field.
C23_WithdrawInstallsWinner ==
    [][WithdrawEffect(LAMBDA held, best : held = best)]_vars

\* C23 amended: withdraw_route returns false and changes nothing when
\* rib_in[from_asn][prefix] is absent; otherwise it removes exactly that
\* entry, leaves the other prefixes of rib alone, returns true iff
\* rib[prefix] changed, and afterwards rib[prefix] is absent when no
\* candidate remains and else agrees with the decision-process winner in
\* as_path, local_pref and origin (med and next_hop may still be those of
\* the withdrawn route).
C23_WithdrawInstallsWinnerUpToEquality ==
    [][WithdrawEffect(routes_equal)]_vars

\* a withdraw_route call took away the route rib held, a candidate of the
\* other peer remained and was installed
C23_Witness ==
    /\ last.op = "withdraw" /\ last.ret
    /\ last.prefix \notin DOMAIN nodes[ApiAsn].rib_in[last.from_asn]
    /\ Candidates(nodes[ApiAsn], last.prefix) # {}
    /\ RibHas(ApiAsn, last.prefix)
    /\ RibGet(ApiAsn, last.prefix).next_hop # last.from_asn
    /\ RibGet(ApiAsn, last.prefix) =
           select_best_route(Candidates(nodes[ApiAsn], last.prefix))

\* C24: an add_neighbor call for a peer that is already in neighbors
\* leaves the node as it is: neighbors, rib_in with the routes stored for
\* that peer, and rib.
C24_AddNeighborIdempotent ==
    [][(last'.op = "add_neighbor"
        /\ last'.from_asn \in nodes[last'.asn].neighbors) =>
           /\ nodes'[last'.asn].neighbors = nodes[last'.asn].neighbors
           /\ nodes'[last'.asn].rib_in = nodes[last'.asn].rib_in
           /\ nodes'[last'.asn].rib = nodes[last'.asn].rib]_vars

C26_UnknownScenarioNeverReturns ==
    config.scenario \notin KnownScenarios =>
        /\ pc \notin {"results", "done"}
        /\ ~results.ready

\* a run with an unknown scenario name that failed after the sessions
C26_Failed ==
    /\ config.scenario \notin KnownScenarios
    /\ pc = "failed"
    /\ ~results.ready

\* the last statement was r.clone() on the object heap.self
Cloned == last.op = "clone"
\* the last statement mutated the object heap.self
Mutated == last.op \in {"append", "insert", "set"}

\* C27: r.clone() returns a new Route object whose prefix, as_path, origin,
\* local_pref, med and next_hop equal those of r and leaves every existing
\* object as it was; a later append or insert on the as_path of a Route
\* object, or an assignment to one of its fields, changes the attributes of
\* no other Route object, be it the clone or the source.
C27_CloneIsDeepCopy ==
    [][/\ Cloned' =>
             /\ heap'.ret = Len(heap.routes) + 1
             /\ heap'.ret \notin RouteObjs
             /\ RouteOf(heap', heap'.ret) = RouteOf(heap, heap'.self)
             /\ RouteOf(heap', heap'.ret) = clone(RouteOf(heap, heap'.self))
             /\ \A r \in RouteObjs : RouteOf(heap', r) = RouteOf(heap, r)
       /\ Mutated' =>
             /\ RouteOf(heap', heap'.self) # RouteOf(heap, heap'.self)
             /\ \A r \in RouteObjs \ {heap'.self} :
                   RouteOf(heap', r) = RouteOf(heap, r)]_vars

\* a Route with a one-hop path was cloned, then the clone's as_path was
\* appended to, then the source got another local_pref: the two objects
\* now differ in both attributes
C27_Witness ==
    /\ last.op = "set"
    /\ heap.self = 1
    /\ Len(heap.routes) = 2
    /\ RouteOf(heap, 1).as_path = <<A200>>
    /\ RouteOf(heap, 2).as_path = <<A200, A300>>
    /\ RouteOf(heap, 1).local_pref # RouteOf(heap, 2).local_pref

\* the directed peer pairs (a, b): b is in the neighbor set of a
DirectedPeerPairs ==
    {pr \in (DOMAIN nodes) \X NodeSet : pr[2] \in nodes[pr[1]].neighbors}
\* the distinct undirected links the config lists
UndirectedLinks ==
    {{config.links[i][1], config.links[i][2]} : i \in 1..Len(config.links)}
OpenIndexes == {i \in 1..Len(timeline) : timeline[i].event_type = "open"}

\* C28: until the sessions are established the timeline is empty; from then
\* on it begins with the open events, one for each directed peer pair and
\* hence two for each distinct link of the config however often the link is
\* listed, all with timestamp 0, and every event after them is of another
\* type.
C28_OpenEventsOncePerPeering ==
    IF pc \in {"build", "sessions"}
    THEN timeline = << >>
    ELSE /\ OpenIndexes = 1..Cardinality(DirectedPeerPairs)
         /\ Cardinality(DirectedPeerPairs) = 2 * Cardinality(UndirectedLinks)
         /\ \A i \in OpenIndexes : timeline[i].timestamp = 0
         /\ \A pr \in DirectedPeerPairs :
               Cardinality({i \in OpenIndexes :
                               /\ timeline[i].from_as = pr[1]
                               /\ timeline[i].to_as = pr[2]}) = 1

\* a finished run of a config that lists one link twice: two open events,
\* then updates
C28_Witness ==
    /\ pc = "done"
    /\ config.links \in DuplicateLinkSeqs
    /\ OpenIndexes = {1, 2}
    /\ Len(timeline) > 2
    /\ \E i \in 3..Len(timeline) : timeline[i].event_type = "update"

\* the events a step appends to the timeline
AddedEvents == SubSeq(timeline', Len(timeline) + 1, Len(timeline'))
AddedKeepalives ==
    {i \in 1..Len(AddedEvents) : AddedEvents[i].event_type = "keepalive"}

\* C29: the end of a round that staged no update logs exactly one keepalive
\* event for each directed peer pair and nothing else, all with that round's
\* timestamp, and leaves the driver converged at its loop test, so that no
\* further round starts; no other step, the end of a round that staged an
\* update included, logs a keepalive event.
C29_KeepalivesMarkEmptyRound ==
    [][IF last'.op = "end_round" /\ Len(updates_to_process) = 0
       THEN /\ AddedKeepalives = 1..Len(AddedEvents)
            /\ Len(AddedEvents) = Cardinality(DirectedPeerPairs)
            /\ \A i \in AddedKeepalives :
                  /\ AddedEvents[i].timestamp = current_step
                  /\ <<AddedEvents[i].from_as, AddedEvents[i].to_as>>
                         \in DirectedPeerPairs
            /\ \A pr \in DirectedPeerPairs :
                  \E i \in AddedKeepalives :
                      /\ AddedEvents[i].from_as = pr[1]
                      /\ AddedEvents[i].to_as = pr[2]
            /\ pc' = "loop" /\ converged' /\ iteration' = iteration
       ELSE AddedKeepalives = {}]_vars

\* a round that staged nothing has just ended with keepalives in a run
\* in which an earlier round logged an update
C29_Witness ==
    /\ last.op = "end_round"
    /\ Len(updates_to_process) = 0
    /\ Len(timeline) >= 2
    /\ timeline[Len(timeline)].event_type = "keepalive"
    /\ timeline[Len(timeline)].timestamp = current_step
    /\ \E i \in 1..Len(timeline) :
          /\ timeline[i].event_type = "update"
          /\ timeline[i].timestamp < current_step

\* the Route value an object reference stands for, None for no object
RouteOrNone(h, r) == IF r = 0 THEN None ELSE Some(RouteOf(h, r))

\* C30: a staging call prepare_advertisement(route, neighbor), whether it
\* returns an advertisement or None, leaves the route it was handed and
\* every other existing Route object with the attributes it had, leaves
\* the node (neighbors, rib, rib_in, policy) as it was, and returns a
\* fresh object, carrying the advertisement computed from the route's
\* attributes, or None.
C30_StagingIsReadOnly ==
    [][last'.op = "prepare" =>
          /\ \A r \in RouteObjs : RouteOf(heap', r) = RouteOf(heap, r)
          /\ nodes' = nodes
          /\ heap'.ret \notin RouteObjs
          /\ RouteOrNone(heap', heap'.ret) =
                 prepare_advertisement(nodes[ApiAsn],
                                       RouteOf(heap, heap'.self),
                                       last'.from_asn)]_vars

\* a staging call under a prepending policy returned an advertisement whose
\* as_path is longer than that of the route it was handed by the prepended
\* copies and the node's own asn
C30_Witness ==
    /\ last.op = "prepare"
    /\ nodes[ApiAsn].policy.as_path_prepend > 0
    /\ heap.ret # 0
    /\ Len(RouteOf(heap, heap.ret).as_path) >=
           Len(RouteOf(heap, heap.self).as_path) + 2
    /\ RouteOf(heap, heap.ret).next_hop = ApiAsn

\* a staging call returned None
C30_WitnessSuppressed ==
    /\ last.op = "prepare"
    /\ heap.ret = 0

\* C31: a round stages its updates from the ribs as they stand when it
\* starts; every receive_route call of the round takes the next staged
\* update and leaves the staged queue as it is, so that a best route
\* installed in round k is advertised in round k+1 at the earliest; in a
\* baseline run a node that holds a prefix in its rib during or after round
\* k is at most k hops away from the origin.
C31_StartOfRoundView ==
    [][/\ last'.op = "stage" =>
             updates_to_process' = StageUpdates(nodes, config.nodes, set_order)
       /\ (pc = "apply" /\ last'.op = "receive") =>
             /\ updates_to_process' = updates_to_process
             /\ last'.route = Some(updates_to_process[upd_i].adv_route)
             /\ last'.from_asn = updates_to_process[upd_i].from_asn
             /\ last'.asn = updates_to_process[upd_i].to_asn
       /\ config.scenario = "baseline" =>
             \A n \in DOMAIN nodes' : \A prefix \in DictKeys(nodes'[n].rib) :
                 HopDistance(config, n) \in 0..iteration']_vars

\* the second round of a baseline run on the chain 100 - 200 - 300 has just
\* handed the route of origin "100" to "300", two hops away, which did not
\* hold it when the round was staged from a non-empty rib of "200"
C31_Witness ==
    /\ config.scenario = "baseline"
    /\ config.links = SubSeq(AllLinks, 1, 2)
    /\ config.origin_as = A100
    /\ pc = "apply"
    /\ iteration = 2
    /\ last.op = "receive" /\ last.asn = A300 /\ last.ret
    /\ RibHas(A300, P1)
    /\ HopDistance(config, A300) = 2

\* rib[prefix] of node before and after differ in as_path, local_pref or
\* origin, an entry that appears or disappears counting as a difference
RibEntryDiffers(before, after, prefix) ==
    LET b == RibEntry(before, prefix)
        a == RibEntry(after, prefix)
    IN  IF IsNone(b) \/ IsNone(a) THEN IsNone(b) # IsNone(a)
        ELSE ~routes_equal(Val(b), Val(a))

\* the update events with a to_as that a step appends to the timeline
AddedUpdates ==
    SelectSeq(AddedEvents,
              LAMBDA e : e.event_type = "update" /\ e.to_as # None)

C32_WitnessNextHopOnly ==
    /\ last.op = "receive" /\ ~last.ret
    /\ ~IsNone(last.best)
    /\ RibHas(last.asn, last.prefix)
    /\ Val(last.best).route.next_hop # RibGet(last.asn, last.prefix).next_hop

\* what receive_route is to store for a route handed over by from_asn
Imported(policy, route, from_asn) ==
    [route EXCEPT
        !.next_hop = from_asn,
        !.local_pref = IF from_asn \in DOMAIN policy.local_pref_map
                       THEN policy.local_pref_map[from_asn] ELSE @]

\* C33: receive_route(route, from_asn) leaves the Route object it is handed
\* and every other existing object with the attributes it had; when it
\* accepts the route (no own asn in the as_path, a next_hop present),
\* rib_in[from_asn][route.prefix] becomes a fresh object with next_hop
\* from_asn, local_pref local_pref_map[from_asn] when that key exists and
\* the route's local_pref otherwise, and the route's other attributes,
\* whatever was stored there before, while the other rib_in entries keep
\* their objects; when it rejects the route, rib_in and rib are unchanged.
\* The node the objects stand for is the one the value-level receive_route
\* computes.
C33_ImportProcessing ==
    [][last'.op = "receive" =>
          LET node == nodes[ApiAsn]
              from_asn == last'.from_asn
              route == RouteOf(heap, heap'.self)
              accepted == ~has_loop(route, ApiAsn) /\ route.next_hop # None
              result == receive_route(NodeOf(heap, node), route, from_asn)
          IN  /\ \A r \in RouteObjs : RouteOf(heap', r) = RouteOf(heap, r)
              /\ NodeOf(heap', node) = result.node
              /\ last'.ret = result.ret
              /\ accepted =>
                    /\ from_asn \in DOMAIN heap'.rib_in
                    /\ route.prefix \in DOMAIN heap'.rib_in[from_asn]
                    /\ heap'.rib_in[from_asn][route.prefix] \notin RouteObjs
                    /\ RouteOf(heap', heap'.rib_in[from_asn][route.prefix]) =
                           Imported(node.policy, route, from_asn)
                    /\ \A nb \in DOMAIN heap.rib_in :
                       \A prefix \in DOMAIN heap.rib_in[nb] :
                           <<nb, prefix>> # <<from_asn, route.prefix>> =>
                               heap'.rib_in[nb][prefix] = heap.rib_in[nb][prefix]
              /\ ~accepted =>
                    /\ heap'.rib_in = heap.rib_in
                    /\ heap'.rib = heap.rib]_vars

\* the second of two routes handed over by "200", the only peer heard, was
\* accepted in place of the first and changed the best route (each of the
\* two calls made three Route objects); the import policy overwrote the
\* local_pref the route carried
C33_Witness ==
    /\ last.op = "receive" /\ last.from_asn = A200 /\ last.ret
    /\ A200 \in DOMAIN nodes[ApiAsn].policy.local_pref_map
    /\ Len(heap.routes) = 7
    /\ DOMAIN heap.rib_in = {A200}
    /\ P1 \in DOMAIN heap.rib_in[A200]
    /\ heap.rib_in[A200][P1] # heap.self
    /\ RouteOf(heap, heap.self).local_pref = DefaultLocalPref
    /\ RouteOf(heap, heap.rib_in[A200][P1]).local_pref = 150
    /\ RouteOf(heap, heap.rib_in[A200][P1]).as_path =
           RouteOf(heap, heap.self).as_path

\* C34: no step removes or reorders events: the timeline before a step is
\* a prefix of the one after it, and the events a step appends carry the
\* current_step reached by the step; current_step never decreases, a round
\* adds exactly 1 to it when it starts and nothing later; the timestamps of
\* the timeline never decrease along it; and the convergence_steps of the
\* results is the current_step the run ended with.
C34_MonotoneTimelineAndClock ==
    [][/\ Len(timeline') >= Len(timeline)
       /\ SubSeq(timeline', 1, Len(timeline)) = timeline
       /\ \A i \in 1..Len(AddedEvents) :
             AddedEvents[i].timestamp = current_step'
       /\ current_step' >= current_step
       /\ last'.op = "stage" =>
             /\ current_step' = current_step + 1
             /\ iteration' = iteration + 1
       /\ pc = "apply" => current_step' = current_step
       /\ \A i, j \in 1..Len(timeline') :
             i <= j => timeline'[i].timestamp <= timeline'[j].timestamp
       /\ pc' = "done" =>
             /\ results'.metrics.convergence_steps = current_step'
             /\ \A i \in 1..Len(timeline') :
                   timeline'[i].timestamp <= current_step']_vars

\* a finished hijack run whose timeline carries events of the first
\* propagation, of the hijacker's announcement and of a later round
C34_Witness ==
    /\ pc = "done"
    /\ config.scenario = "hijack"
    /\ results.metrics.convergence_steps = current_step
    /\ current_step >= 4
    /\ \E i, j, k \in 1..Len(timeline) :
          /\ i < j /\ j < k
          /\ timeline[i].event_type = "update" /\ timeline[i].to_as # None
          /\ timeline[j].event_type = "update" /\ timeline[j].to_as = None
          /\ timeline[j].from_as = config.hijacker
          /\ timeline[j].timestamp > timeline[i].timestamp
          /\ timeline[k].timestamp > timeline[j].timestamp

(***************************************************************************)
(* C35: clone-on-cross                                                     *)
(***************************************************************************)
\* the slots of the node's rib_in, as <<peer, prefix>>
RibInSlots ==
    {s \in (DOMAIN heap.rib_in) \X Prefixes : s[2] \in DOMAIN heap.rib_in[s[1]]}

\* C35: no Route object is shared by reference between two RIB slots: the
\* object of rib[prefix] is not the object of any rib_in[peer][prefix], the
\* self peer included, two slots of rib_in never hold one object, and the
\* entry stored by receive_route is not the advertisement handed over
C35_NoRouteSharedBetweenRibSlots ==
    /\ \A i \in 1..Len(heap.rib) : \A s \in RibInSlots :
          heap.rib[i].v # heap.rib_in[s[1]][s[2]]
    /\ \A s, t \in RibInSlots :
          s # t => heap.rib_in[s[1]][s[2]] # heap.rib_in[t[1]][t[2]]
    /\ \A i, j \in 1..Len(heap.rib) : i # j => heap.rib[i].v # heap.rib[j].v
    /\ last.op = "receive" =>
          /\ \A s \in RibInSlots : heap.rib_in[s[1]][s[2]] # heap.self
          /\ \A i \in 1..Len(heap.rib) : heap.rib[i].v # heap.self

(***************************************************************************)
(* C36: MED between candidates of different first-hop ASes                 *)
(***************************************************************************)
\* the node holds exactly the candidates c and d for prefix, from two
\* neighbors and with two first-hop ASes, equal in local_pref, AS-path
\* length and origin, c with the lower MED
MedDecides(n, prefix, c, d) ==
    /\ Candidates(nodes[n], prefix) = {c, d}
    /\ c.neighbor # d.neighbor
    /\ c.route.as_path # << >> /\ d.route.as_path # << >>
    /\ c.route.as_path[1] # d.route.as_path[1]
    /\ c.route.local_pref = d.route.local_pref
    /\ Len(c.route.as_path) = Len(d.route.as_path)
    /\ c.route.origin = d.route.origin
    /\ c.route.med < d.route.med

\* C36: of two candidates from different neighbors with different first-hop
\* ASes, equal in local_pref, AS-path length and origin, the one with the
\* lower MED is the one installed in rib
C36_LowerMedInstalled ==
    \A n \in DOMAIN nodes : \A prefix \in Prefixes :
        \A c, d \in Candidates(nodes[n], prefix) :
            MedDecides(n, prefix, c, d) =>
                /\ RibHas(n, prefix)
                /\ RibGet(n, prefix) = c.route

(***************************************************************************)
(* C37: forwarding along next_hop in the final state                       *)
(***************************************************************************)
\* the nodes on which the scenario calls originate_route
Originators ==
    {config.origin_as} \cup
    (IF config.scenario = "hijack" THEN {config.hijacker} ELSE {})

\* following rib[prefix].next_hop from n for at most k hops ends at a node
\* that originated the prefix and whose own entry names itself as next_hop
RECURSIVE ReachesOriginator(_, _, _)
ReachesOriginator(n, prefix, k) ==
    /\ n \in DOMAIN nodes
    /\ RibHas(n, prefix)
    /\ \/ /\ RibGet(n, prefix).next_hop = n
          /\ n \in Originators
       \/ /\ k > 0
          /\ ReachesOriginator(RibGet(n, prefix).next_hop, prefix, k - 1)

\* following rib[prefix].next_hop from n for k >= 1 hops, each from a node
\* that holds an entry, comes back to m
RECURSIVE ComesBack(_, _, _, _)
ComesBack(n, m, prefix, k) ==
    /\ n \in DOMAIN nodes
    /\ RibHas(n, prefix)
    /\ \/ RibGet(n, prefix).next_hop = m
       \/ /\ k > 1
          /\ ComesBack(RibGet(n, prefix).next_hop, m, prefix, k - 1)

\* two or more nodes whose best routes for prefix point at each other in a
\* cycle
InForwardingCycle(n, prefix) ==
    /\ RibHas(n, prefix)
    /\ RibGet(n, prefix).next_hop # n
    /\ ComesBack(n, n, prefix, Cardinality(DOMAIN nodes))

RECURSIVE ForwardingEnd(_, _, _)
ForwardingEnd(n, prefix, k) ==
    IF \/ n \notin DOMAIN nodes
       \/ ~RibHas(n, prefix)
       \/ k = 0
    THEN n
    ELSE IF RibGet(n, prefix).next_hop = n
    THEN n
    ELSE ForwardingEnd(RibGet(n, prefix).next_hop, prefix, k - 1)

C37_WitnessFlap ==
    /\ pc = "done"
    /\ config.scenario = "route_flap"
    /\ \E n \in DOMAIN nodes : \E prefix \in Prefixes :
          /\ RibHas(n, prefix)
          /\ RibGet(n, prefix).next_hop = config.origin_as
          /\ ~RibHas(config.origin_as, prefix)

(***************************************************************************)
(* C38: rib_in against the peers' best routes at convergence               *)
(***************************************************************************)
\* the loop of _propagate_until_convergence has just found converged set
DeclaredConverged == pc = "loop" /\ converged /\ iteration >= 1

\* what r would store from p for prefix in the next round: p's best route,
\* as p would advertise it to r and r would take it, after r's import
\* policy; None when p has no route, suppresses it, or r rejects it
WouldHold(r, p, prefix) ==
    IF ~(RibHas(p, prefix) /\ r \in nodes[p].neighbors)
    THEN None
    ELSE LET adv == prepare_advertisement(nodes[p], RibGet(p, prefix), r)
         IN  IF IsNone(adv) THEN None
             ELSE IF has_loop(Val(adv), r) \/ Val(adv).next_hop = None
             THEN None
             ELSE Some(Imported(nodes[r].policy, Val(adv), p))

HeldFrom(r, p, prefix) ==
    IF p \in DOMAIN nodes[r].rib_in /\ prefix \in DOMAIN nodes[r].rib_in[p]
    THEN Some(nodes[r].rib_in[p][prefix])
    ELSE None

\* C38: whenever the driver declares convergence, for every node r, every
\* other peer p and every prefix, rib_in[p][prefix] of r is present exactly
\* when p's current best route is one p would advertise to r and r would
\* accept, and then equals that advertisement after r's import policy
C38_NoStaleRoutesAtConvergence ==
    DeclaredConverged =>
        \A r \in DOMAIN nodes : \A p \in DOMAIN nodes \ {r} :
            \A prefix \in Prefixes :
                HeldFrom(r, p, prefix) = WouldHold(r, p, prefix)

(***************************************************************************)
(* C39: the origin's own route under hijack                                *)
(***************************************************************************)
\* C39: at the end of a hijack run with default policies the origin's rib
\* holds its self-originated route (as_path [origin], next_hop origin) for
\* every configured prefix
C39_OriginKeepsOwnRoute ==
    (pc = "done" /\ config.scenario = "hijack" /\ config.policies = EmptyMap) =>
        \A i \in 1..Len(config.prefixes) :
            /\ RibHas(config.origin_as, config.prefixes[i])
            /\ RibGet(config.origin_as, config.prefixes[i]).as_path
                  = <<config.origin_as>>
            /\ RibGet(config.origin_as, config.prefixes[i]).next_hop
                  = config.origin_as

(***************************************************************************)
(* C40: the prefixes of one configuration                                  *)
(***************************************************************************)
\* the nodes at the end of the run of the same config with prefix as the
\* only configured prefix, enumerated as this run enumerates
RunAlone(prefix) ==
    RunNodes([config EXCEPT !.prefixes = <<prefix>>], <<prefix>>,
             Enumeration(config.nodes, set_order, FALSE))

\* C40: at the end of a run with several prefixes, every node's final rib
\* entry for a prefix P is the entry (or the absence of one) that the run
\* of the same config with P as its only prefix ends with
C40_PrefixesDoNotInteract ==
    (pc = "done" /\ Len(config.prefixes) >= 2) =>
        \A i \in 1..Len(config.prefixes) :
            LET prefix == config.prefixes[i]
                alone == RunAlone(prefix)
            IN  \A n \in DOMAIN nodes :
                    /\ RibHas(n, prefix) <=> DictHas(alone[n].rib, prefix)
                    /\ RibHas(n, prefix) =>
                           RibGet(n, prefix) = DictGet(alone[n].rib, prefix)

\* a finished hijack run with two prefixes, default max_steps and a policy,
\* in which a node two hops from an originator holds both prefixes and the
\* hijacker's route has replaced the origin's at some node
C40_Witness ==
    /\ pc = "done"
    /\ Len(config.prefixes) = 2
    /\ config.scenario = "hijack"
    /\ config.max_steps = DefaultMaxSteps
    /\ config.policies # EmptyMap
    /\ \E n \in DOMAIN nodes :
          /\ \A i \in 1..2 :
                /\ RibHas(n, config.prefixes[i])
                /\ Len(RibGet(n, config.prefixes[i]).as_path) >= 2
          /\ RibGet(n, P1).as_path[Len(RibGet(n, P1).as_path)] = config.hijacker

====
